---- MODULE Spec2Model ----
(***************************************************************************)
(* nexlint: the lint context, the lint engine run and the rule sets.       *)
(*                                                                         *)
(* The rules of nexlint-lints are operators over a package graph snapshot  *)
(* and over tracked files; NexLintContext is built from the process's      *)
(* directory and the repository's root and fills its two cells from cargo  *)
(* metadata and git ls-files on first use; the engine run is a state       *)
(* machine that invokes the rules, one (target, rule) pair per step, and   *)
(* accumulates LintResults.                                                *)
(***************************************************************************)
EXTENDS Integers, Sequences, FiniteSets, TLC

VARIABLES
    ctx,        \* the workspace a run reads: the package graph cargo metadata
                \* gives if it succeeds, the workspace-hack name, and the files
                \* git ls-files lists if it succeeds
    config,     \* LintEngineConfig: linters per variant, fail_fast, rule configs
    status,     \* run state: "Idle", "Running", "Completed", "FailedFast",
                \* "SystemError"
    pos,        \* index of the next (target, linter) invocation of the run
    messages,   \* LintResults.messages: sequence of (source, message)
    skipped,    \* LintResults.skipped: sequence of (source, reason)
    origin,     \* history: for each entry of messages, the invocation that wrote it
    last,       \* history: the invocation just made and what it wrote
    result,     \* what run() returned: NoResult until it returns
    printed,    \* the messages the command printed
    exit,       \* how the command ended: None, "success" or "failure"
    os,         \* the process and the repository: working directory, and what
                \* the external commands give when they are run now (graph-1
                \* and files-1 stand for the graph and the files of ctx)
    nexlint_context, \* the NexLintContext built by new(), NoContext before
    returned,   \* history: what the last call on the context returned
    commands,   \* history: how often each external command was run
    once,       \* a OnceCell shared by threads: its state and its slot
    callers,    \* the threads calling the accessor of the shared cell
    initialised \* history: how often an initialiser of the shared cell succeeded

\* The state of an engine run, and the state of a context and its accessors.
evars == <<ctx, config, status, pos, messages, skipped, origin, last,
           result, printed, exit>>
cvars == <<os, nexlint_context, returned, commands, once, callers, initialised>>
svars == <<once, callers, initialised>>

vars == <<ctx, config, status, pos, messages, skipped, origin, last,
          result, printed, exit, os, nexlint_context, returned, commands,
          once, callers, initialised>>

(***************************************************************************)
(* Bounds.                                                                 *)
(***************************************************************************)
MaxLinks == 3
MaxFiles == 2
MaxCalls == 3
MaxThreads == 2

(***************************************************************************)
(* Generic helpers.                                                        *)
(***************************************************************************)
None == "<none>"

\* All strings the model compares with Ord, in ascending (byte-wise) order.
StrOrder == <<"a", "a_u", "b", "h1", "h2", "hack", "r1", "r2", "x", "y">>

\* Position of a string in str's total order (Ord for &str).
StrRank(s) == CHOOSE i \in 1..Len(StrOrder) : StrOrder[i] = s

RECURSIVE Concat(_)
Concat(ss) == IF ss = <<>> THEN <<>> ELSE Head(ss) \o Concat(Tail(ss))

RECURSIVE SelectSeqF(_, _)
SelectSeqF(s, keep) ==
    IF s = <<>> THEN <<>>
    ELSE (IF keep[Head(s)] THEN <<Head(s)>> ELSE <<>>) \o SelectSeqF(Tail(s), keep)

Range(s) == {s[i] : i \in 1..Len(s)}

\* The sequences that list every element of S once: the orders in which an
\* iterator over an unordered collection can yield S.
RECURSIVE Orders(_)
Orders(S) ==
    IF S = {} THEN {<<>>}
    ELSE UNION {{<<x>> \o rest : rest \in Orders(S \ {x})} : x \in S}

\* str::chars for the names and path components the model uses.
str_chars(s) ==
    CASE s = "a_u" -> <<"a", "_", "u">>
      [] s = "t_x" -> <<"t", "_", "x">>
      [] s = "hack" -> <<"h", "a", "c", "k">>
      [] s = "crates" -> <<"c", "r", "a", "t", "e", "s">>
      [] s = "workspace-hack" ->
            <<"w", "o", "r", "k", "s", "p", "a", "c", "e", "-", "h", "a", "c", "k">>
      [] s = "other" -> <<"o", "t", "h", "e", "r">>
      [] s = "lib" -> <<"l", "i", "b">>
      [] s = "sub" -> <<"s", "u", "b">>
      [] s = "main" -> <<"m", "a", "i", "n">>
      [] s = "build-script-build" ->
            <<"b", "u", "i", "l", "d", "-", "s", "c", "r", "i", "p", "t", "-",
              "b", "u", "i", "l", "d">>
      [] s \in {"a", "b", "x", "y"} -> <<s>>

\* str::contains(char)
contains(s, ch) == ch \in Range(str_chars(s))

\* The keys of a BTreeMap in iteration order: ascending by rank.
RECURSIVE SortedKeys(_, _)
SortedKeys(S, rank) ==
    IF S = {} THEN <<>>
    ELSE LET m == CHOOSE x \in S : \A y \in S : rank[x] <= rank[y]
         IN  <<m>> \o SortedKeys(S \ {m}, rank)

(***************************************************************************)
(* The package graph (guppy::graph::PackageGraph) as the rules read it.    *)
(***************************************************************************)
\* PackagePublish
Unrestricted == [unrestricted |-> TRUE, registries |-> <<>>]
Registries(rs) == [unrestricted |-> FALSE, registries |-> rs]
CRATES_IO == "crates-io"
is_never(publish) == ~publish.unrestricted /\ publish.registries = <<>>

\* PackageSource: workspace path, registry, or git with repository and revision.
WorkspaceSource == [kind |-> "workspace", repository |-> None, resolved |-> None]
RegistrySource == [kind |-> "registry", repository |-> None, resolved |-> None]
GitSource(repository, resolved) ==
    [kind |-> "git", repository |-> repository, resolved |-> resolved]

\* BuildTarget: its name and the file stem of its path.
BuildTarget(name, file_stem) == [name |-> name, file_stem |-> file_stem]

\* PackageMetadata of a package whose manifest gives no authors and no license,
\* with one library target (src/lib.rs) and no build script.
Package(id, name, version, in_workspace, workspace_path, publish, source) ==
    [id |-> id, name |-> name, version |-> version, in_workspace |-> in_workspace,
     workspace_path |-> workspace_path, publish |-> publish, source |-> source,
     authors |-> <<>>, license |-> None,
     build_targets |-> <<BuildTarget(name, "lib")>>]

\* The build target of a build script (build.rs), which cargo names
\* build-script-build.
BuildScriptTarget == BuildTarget("build-script-build", "build")

\* PackageMetadata::has_build_script: is the build script among the targets?
has_build_script(package) == BuildScriptTarget \in Range(package.build_targets)

\* The build targets with the build script added: build_targets() yields the
\* library first, then the build script, then the binaries.
with_build_script(targets) ==
    IF targets # <<>> /\ targets[1].file_stem = "lib"
    THEN <<targets[1], BuildScriptTarget>> \o Tail(targets)
    ELSE <<BuildScriptTarget>> \o targets

\* PackageLink of a normal dependency: build().is_present() is false.
Link(from, to, version_req, dep_name) ==
    [from |-> from, to |-> to, version_req |-> version_req, dep_name |-> dep_name,
     build |-> FALSE]

\* PackageLink of a build dependency.
BuildLink(from, to, version_req, dep_name) ==
    [Link(from, to, version_req, dep_name) EXCEPT !.build = TRUE]

\* The package ids in the order in which the graph is built from them.
IdOrder == <<"a", "b", "hack", "x1", "x2", "y">>
IdRank(id) == CHOOSE i \in 1..Len(IdOrder) : IdOrder[i] = id

\* The packages a set of links reaches from the packages ids, in at most n hops.
RECURSIVE Reached(_, _, _)
Reached(ids, links, n) ==
    IF n = 0 THEN ids
    ELSE Reached(ids \cup {l.to : l \in {k \in links : k.from \in ids}}, links, n - 1)

\* The PackageGraph of a workspace: its members and the third-party packages
\* that the dependency links reach from a member, and the links between these
\* packages.  The graph receives its edges package by package in id order, each
\* package's dependencies in id order, and hands the edges out newest first:
\* this is the order of links, and so of direct_links, reverse_direct_links and
\* of the links query_workspace() walks.
build_graph(packages, links) ==
    LET members == {p.id : p \in {q \in Range(packages) : q.in_workspace}}
        ids == Reached(members, links, Cardinality(links))
        kept == {l \in links : l.from \in ids}
    IN  [packages |-> SelectSeqF(packages, [p \in Range(packages) |-> p.id \in ids]),
         links |-> SortedKeys(kept,
                      [l \in kept |->
                          0 - (IdRank(l.from) * Len(IdOrder) + IdRank(l.to))])]

\* PackageGraph::packages: the graph's packages, in the order of a hash map,
\* which differs from process to process: any order.
packages_orders(graph) == Orders(Range(graph.packages))

\* PackageGraph::metadata
metadata(graph, id) ==
    LET i == CHOOSE i \in 1..Len(graph.packages) : graph.packages[i].id = id
    IN  graph.packages[i]

\* PackageMetadata::direct_links
direct_links(graph, id) ==
    SelectSeqF(graph.links, [l \in Range(graph.links) |-> l.from = id])

\* PackageMetadata::reverse_direct_links
reverse_direct_links(graph, id) ==
    SelectSeqF(graph.links, [l \in Range(graph.links) |-> l.to = id])

(***************************************************************************)
(* Lint messages.                                                          *)
(***************************************************************************)
\* LintKind
KindProject == [type |-> "project", name |-> None, workspace_path |-> <<>>]
KindPackage(name, workspace_path) ==
    [type |-> "package", name |-> name, workspace_path |-> workspace_path]

\* The text of a message, kept as its format string and its arguments.
Body(text, subject, note, versions, hashes) ==
    [text |-> text, subject |-> subject, note |-> note,
     versions |-> versions, hashes |-> hashes]

\* One entry of a formatter's output: (LintSource, LintMessage).
Message(name, kind, level, body) ==
    [name |-> name, kind |-> kind, level |-> level, body |-> body]

\* LintFormatter::write_kind
\* Mutation of write_kind: the kind handed over is dropped for the project kind.
write_kind_as_project(name, kind, level, body) ==
    <<Message(name, KindProject, level, body)>>

write_kind(name, kind, level, body) == <<Message(name, kind, level, body)>>

(***************************************************************************)
(* Project linters (nexlint-lints/src/guppy.rs).                           *)
(***************************************************************************)
\* ProjectContext::workspace_hack_name compared with a package name.
is_workspace_hack(c, name) == c.workspace_hack_name # None /\ name = c.workspace_hack_name

\* The closure filter_ban over packages(): the graph's packages whose name is a
\* banned key, in each order in which packages() can yield them.
filter_ban(graph, banned) ==
    {SelectSeqF(order, [p \in Range(order) |-> p.name \in DOMAIN banned]) :
        order \in packages_orders(graph)}

\* Mutation of BannedDeps_direct_link: the workspace-hack package is not skipped.
BannedDeps_direct_link_with_hack(c, package, cfg, link) ==
    LET from == metadata(c.package_graph, link.from)
    IN  IF from.in_workspace
        THEN write_kind("banned-deps", KindPackage(from.name, from.workspace_path),
                        "error",
                        Body("banned direct dependency", package.name, cfg.message,
                             <<>>, <<>>))
        ELSE <<>>

\* What BannedDeps writes for one reverse direct link of a Direct-banned package.
BannedDeps_direct_link(c, package, cfg, link) ==
    LET from == metadata(c.package_graph, link.from)
    IN  IF from.in_workspace /\ ~is_workspace_hack(c, from.name)
        THEN write_kind("banned-deps", KindPackage(from.name, from.workspace_path),
                        "error",
                        Body("banned direct dependency", package.name, cfg.message,
                             <<>>, <<>>))
        ELSE <<>>

\* Mutation of BannedDeps_package: the policy is not looked at, every banned
\* package is reported through its reverse direct links.
BannedDeps_package_ignoring_type(c, package, cfg) ==
    LET links == reverse_direct_links(c.package_graph, package.id)
    IN  Concat([i \in 1..Len(links) |->
                   BannedDeps_direct_link(c, package, cfg, links[i])])

\* What BannedDeps writes for one (package, config) pair of filter_ban.
BannedDeps_package(c, package, cfg) ==
    IF cfg.type_ = "Always"
    THEN write_kind("banned-deps", KindProject, "error",
                    Body("banned project dependency", package.name, cfg.message,
                         <<>>, <<>>))
    ELSE LET links == reverse_direct_links(c.package_graph, package.id)
         IN  Concat([i \in 1..Len(links) |->
                        BannedDeps_direct_link(c, package, cfg, links[i])])

\* BannedDeps::run: the outputs the run can have, one for each order of
\* packages().
BannedDeps_run(c, banned) ==
    {Concat([i \in 1..Len(found) |->
                BannedDeps_package(c, found[i], banned[found[i].name])]) :
        found \in filter_ban(c.package_graph, banned)}

\* The links the closure given to query_workspace().resolve_with_fn is asked
\* about: the closure always answers false, so only the links that leave a
\* workspace member are reached.
query_workspace_links(graph) ==
    SelectSeqF(graph.links,
               [l \in Range(graph.links) |-> metadata(graph, l.from).in_workspace])

\* Mutation of DirectDepDups_records: the workspace-hack package is not skipped.
DirectDepDups_records_with_hack(c, link) ==
    LET from == metadata(c.package_graph, link.from)
        to == metadata(c.package_graph, link.to)
    IN  from.in_workspace /\ ~to.in_workspace

\* Mutation of DirectDepDups_records: the target may be a workspace member.
DirectDepDups_records_any_target(c, link) ==
    LET from == metadata(c.package_graph, link.from)
    IN  /\ ~is_workspace_hack(c, from.name)
        /\ from.in_workspace

\* The closure of DirectDepDups::run: does this link add an entry to direct_deps?
DirectDepDups_records(c, link) ==
    LET from == metadata(c.package_graph, link.from)
        to == metadata(c.package_graph, link.to)
    IN  /\ ~is_workspace_hack(c, from.name)
        /\ from.in_workspace
        /\ ~to.in_workspace

\* direct_deps of DirectDepDups::run, as the links that were recorded, in order.
DirectDepDups_direct_deps(c) ==
    LET asked == query_workspace_links(c.package_graph)
    IN  SelectSeqF(asked, [l \in Range(asked) |-> DirectDepDups_records(c, l)])

\* Mutation of DirectDepDups_is_duplicate: a single version already counts.
DirectDepDups_is_duplicate_off_by_one(versions) == Cardinality(versions) >= 1

\* The test versions.len() > 1 of DirectDepDups::run.
DirectDepDups_is_duplicate(versions) == Cardinality(versions) > 1

\* DirectDepDups::run
DirectDepDups_run(c, allow) ==
    LET g == c.package_graph
        recorded == DirectDepDups_direct_deps(c)
        names == {metadata(g, l.to).name : l \in Range(recorded)}
        versions(n) == {metadata(g, l.to).version :
                           l \in {k \in Range(recorded) : metadata(g, k.to).name = n}}
        packages(n, v) ==
            LET hits == SelectSeqF(recorded,
                            [l \in Range(recorded) |->
                                /\ metadata(g, l.to).name = n
                                /\ metadata(g, l.to).version = v])
            IN  [i \in 1..Len(hits) |-> metadata(g, hits[i].from).name]
        listing(n) ==
            LET vs == SortedKeys(versions(n), [v \in versions(n) |-> v])
            IN  [i \in 1..Len(vs) |-> [version |-> vs[i], packages |-> packages(n, vs[i])]]
        checked == SelectSeqF(SortedKeys(names, [n \in names |-> StrRank(n)]),
                              [n \in names |-> n \notin Range(allow)])
    IN  Concat([i \in 1..Len(checked) |->
                   IF DirectDepDups_is_duplicate(versions(checked[i]))
                   THEN write_kind("direct-dep-dups", KindProject, "error",
                                   Body("duplicate direct dependency", checked[i], None,
                                        listing(checked[i]), <<>>))
                   ELSE <<>>])

\* The closure of DirectDuplicateGitDependencies::run: does this link add an entry?
DirectDuplicateGitDependencies_records(c, link) ==
    LET from == metadata(c.package_graph, link.from)
        to == metadata(c.package_graph, link.to)
    IN  /\ ~is_workspace_hack(c, from.name)
        /\ from.in_workspace
        /\ ~to.in_workspace
        /\ to.source.kind = "git"

\* Mutation of DirectDuplicateGitDependencies_is_duplicate: a single hash
\* already counts.
DirectDuplicateGitDependencies_is_duplicate_off_by_one(versions) ==
    Cardinality(versions) >= 1

\* The test versions.len() > 1 of DirectDuplicateGitDependencies::run.
DirectDuplicateGitDependencies_is_duplicate(versions) == Cardinality(versions) > 1

\* DirectDuplicateGitDependencies::run
DirectDuplicateGitDependencies_run(c) ==
    LET g == c.package_graph
        asked == query_workspace_links(g)
        recorded == SelectSeqF(asked,
                        [l \in Range(asked) |-> DirectDuplicateGitDependencies_records(c, l)])
        repositories == {metadata(g, l.to).source.repository : l \in Range(recorded)}
        resolveds(r) == {metadata(g, l.to).source.resolved :
                            l \in {k \in Range(recorded) :
                                      metadata(g, k.to).source.repository = r}}
        packages(r, h) ==
            LET hits == SelectSeqF(recorded,
                            [l \in Range(recorded) |->
                                /\ metadata(g, l.to).source.repository = r
                                /\ metadata(g, l.to).source.resolved = h])
            IN  [i \in 1..Len(hits) |->
                    <<metadata(g, hits[i].from).name, metadata(g, hits[i].to).name>>]
        listing(r) ==
            LET hs == SortedKeys(resolveds(r), [h \in resolveds(r) |-> StrRank(h)])
            IN  [i \in 1..Len(hs) |-> [resolved |-> hs[i], packages |-> packages(r, hs[i])]]
        repos == SortedKeys(repositories, [r \in repositories |-> StrRank(r)])
    IN  Concat([i \in 1..Len(repos) |->
                   IF DirectDuplicateGitDependencies_is_duplicate(resolveds(repos[i]))
                   THEN write_kind("direct-duplicate-git-dependencies", KindProject,
                                   "error",
                                   Body("duplicate git dependency on repository",
                                        repos[i], None, <<>>, listing(repos[i])))
                   ELSE <<>>])

(***************************************************************************)
(* Package linters (nexlint-lints/src/guppy.rs).                           *)
(***************************************************************************)
\* PackageContext::kind
PackageContext_kind(package) == KindPackage(package.name, package.workspace_path)

\* UnpublishedPackagesOnlyUsePathDependencies::new: the parsed star requirement
no_version_req == "*"

\* UnpublishedPackagesOnlyUsePathDependencies::run
UnpublishedPackagesOnlyUsePathDependencies_run(c, package) ==
    IF ~is_never(package.publish) THEN <<>>
    ELSE LET links == direct_links(c.package_graph, package.id)
         IN  Concat([i \in 1..Len(links) |->
                 IF links[i].version_req # no_version_req
                 THEN write_kind("unpublished-packages-only-use-path-dependencies",
                                 PackageContext_kind(package), "error",
                                 Body("unpublished package specifies a version of first-party dependency",
                                      links[i].dep_name, links[i].version_req, <<>>, <<>>))
                 ELSE <<>>])

\* Mutation of PublishedPackagesDontDependOnUnpublishedPackages_run: unpublished
\* packages are not skipped.
PublishedPackagesDontDependOnUnpublishedPackages_run_no_skip(c, package) ==
    LET links == direct_links(c.package_graph, package.id)
    IN  Concat([i \in 1..Len(links) |->
            IF is_never(metadata(c.package_graph, links[i].to).publish)
            THEN write_kind("published-packages-dont-depend-on-unpublished-packages",
                            PackageContext_kind(package), "error",
                            Body("published package can't depend on unpublished package",
                                 links[i].dep_name, None, <<>>, <<>>))
            ELSE <<>>])

\* PublishedPackagesDontDependOnUnpublishedPackages::run
PublishedPackagesDontDependOnUnpublishedPackages_run(c, package) ==
    IF is_never(package.publish) THEN <<>>
    ELSE LET links == direct_links(c.package_graph, package.id)
         IN  Concat([i \in 1..Len(links) |->
                 IF is_never(metadata(c.package_graph, links[i].to).publish)
                 THEN write_kind("published-packages-dont-depend-on-unpublished-packages",
                                 PackageContext_kind(package), "error",
                                 Body("published package can't depend on unpublished package",
                                      links[i].dep_name, None, <<>>, <<>>))
                 ELSE <<>>])

\* Mutation of OnlyPublishToCratesIo_is_ok: a single registry is accepted
\* whatever its name.
OnlyPublishToCratesIo_is_ok_any_registry(publish) ==
    ~publish.unrestricted /\ Len(publish.registries) <= 1

\* The match on metadata.publish() in OnlyPublishToCratesIo::run
OnlyPublishToCratesIo_is_ok(publish) ==
    IF publish.unrestricted THEN FALSE
    ELSE IF Len(publish.registries) = 1 THEN publish.registries[1] = CRATES_IO
    ELSE IF Len(publish.registries) = 0 THEN TRUE
    ELSE FALSE

\* OnlyPublishToCratesIo::run
OnlyPublishToCratesIo_run(c, package) ==
    IF ~OnlyPublishToCratesIo_is_ok(package.publish)
    THEN write_kind("only-publish-to-crates-io", PackageContext_kind(package), "error",
                    Body("published package should only be publishable to crates.io",
                         None, None, <<>>, <<>>))
    ELSE <<>>

\* Mutation of CratesInCratesDirectory_run: nesting is looked at only when the
\* directory name matched, so at most one error is written.
CratesInCratesDirectory_run_first_error_only(c, package) ==
    LET path_components == package.workspace_path
    IN  IF ~(Len(path_components) >= 1 /\ path_components[1] = "crates") THEN <<>>
        ELSE IF ~(Len(path_components) >= 2 /\ path_components[2] = package.name)
        THEN write_kind("crates-in-crates-directory", PackageContext_kind(package),
                        "error",
                        Body("must be in a directory with the same name as the crate",
                             None, None, <<>>, <<>>))
        ELSE IF Len(path_components) >= 3
        THEN write_kind("crates-in-crates-directory", PackageContext_kind(package),
                        "error",
                        Body("must be in a flat directory structure, no nesting",
                             None, None, <<>>, <<>>))
        ELSE <<>>

\* Mutation of CratesInCratesDirectory_run: packages outside crates/ are checked
\* like the others.
CratesInCratesDirectory_run_no_return(c, package) ==
    LET path_components == package.workspace_path
    IN  (IF Len(path_components) >= 2 /\ path_components[2] = package.name
         THEN <<>>
         ELSE write_kind("crates-in-crates-directory", PackageContext_kind(package),
                         "error",
                         Body("must be in a directory with the same name as the crate",
                              None, None, <<>>, <<>>)))
        \o
        (IF Len(path_components) >= 3
         THEN write_kind("crates-in-crates-directory", PackageContext_kind(package),
                         "error",
                         Body("must be in a flat directory structure, no nesting",
                              None, None, <<>>, <<>>))
         ELSE <<>>)

\* CratesInCratesDirectory::run
CratesInCratesDirectory_run(c, package) ==
    LET path_components == package.workspace_path
    IN  IF ~(Len(path_components) >= 1 /\ path_components[1] = "crates") THEN <<>>
        ELSE (IF Len(path_components) >= 2 /\ path_components[2] = package.name
              THEN <<>>
              ELSE write_kind("crates-in-crates-directory", PackageContext_kind(package),
                              "error",
                              Body("must be in a directory with the same name as the crate",
                                   None, None, <<>>, <<>>)))
             \o
             (IF Len(path_components) >= 3
              THEN write_kind("crates-in-crates-directory", PackageContext_kind(package),
                              "error",
                              Body("must be in a flat directory structure, no nesting",
                                   None, None, <<>>, <<>>))
              ELSE <<>>)

\* CratesOnlyInCratesDirectory::run
CratesOnlyInCratesDirectory_run(c, package) ==
    LET path_components == package.workspace_path
    IN  IF Len(path_components) >= 1 /\ path_components[1] = "crates" THEN <<>>
        ELSE write_kind("crates-only-in-crates-directory", PackageContext_kind(package),
                        "error",
                        Body("crates are only allowed to be in the crates directory",
                             None, None, <<>>, <<>>))

\* Option<Vec<String>> of EnforcedAttributesConfig::authors
NoAuthors == [some |-> FALSE, value |-> <<>>]
SomeAuthors(authors) == [some |-> TRUE, value |-> authors]

\* EnforcedAttributesConfig
EnforcedAttributesConfig(authors, license) == [authors |-> authors, license |-> license]

\* authors.join(", ") for the author lists the model uses.
join_comma(authors) ==
    CASE authors = <<>> -> ""
      [] authors = <<"A">> -> "A"
      [] authors = <<"B">> -> "B"
      [] authors = <<"A", "B">> -> "A, B"
      [] authors = <<"B", "A">> -> "B, A"

\* EnforcedAttributes::run
EnforcedAttributes_run(enforced, c, package) ==
    (IF enforced.authors.some /\ package.authors # enforced.authors.value
     THEN write_kind("enforced-attributes", PackageContext_kind(package), "error",
                     Body("invalid authors (expected {:?})", None,
                          join_comma(enforced.authors.value), <<>>, <<>>))
     ELSE <<>>)
    \o
    (IF enforced.license # None /\ package.license # enforced.license
     THEN write_kind("enforced-attributes", PackageContext_kind(package), "error",
                     Body("invalid license (expected {})", None, enforced.license,
                          <<>>, <<>>))
     ELSE <<>>)

\* CrateNamesPaths::run
CrateNamesPaths_run(c, package) ==
    LET targets == package.build_targets
    IN  (IF contains(package.name, "_")
         THEN write_kind("crate-names-paths", PackageContext_kind(package), "error",
                         Body("crate name contains '_' (use '-' instead)",
                              None, None, <<>>, <<>>))
         ELSE <<>>)
        \o
        (IF \E i \in 1..Len(package.workspace_path) :
                  contains(package.workspace_path[i], "_")
         THEN write_kind("crate-names-paths", PackageContext_kind(package), "error",
                         Body("workspace path contains '_' (use '-' instead)",
                              None, None, <<>>, <<>>))
         ELSE <<>>)
        \o
        Concat([i \in 1..Len(targets) |->
                   IF /\ contains(targets[i].name, "_")
                      /\ targets[i].file_stem # targets[i].name
                   THEN write_kind("crate-names-paths", PackageContext_kind(package),
                                   "error",
                                   Body("build target '{}' contains '_' (use '-' instead)",
                                        targets[i].name, None, <<>>, <<>>))
                   ELSE <<>>])

\* IrrelevantBuildDeps::run
IrrelevantBuildDeps_run(c, package) ==
    LET links == direct_links(c.package_graph, package.id)
        has_build_dep == \E i \in 1..Len(links) : links[i].build
    IN  IF ~has_build_script(package) /\ has_build_dep
        THEN write_kind("irrelevant-build-deps", PackageContext_kind(package), "error",
                        Body("build dependencies but no build script",
                             None, None, <<>>, <<>>))
        ELSE <<>>

(***************************************************************************)
(* A linter supplied by the user of the engine (x/src/playground.rs): its  *)
(* body is whatever code is added to it, so a run may write any messages.  *)
(***************************************************************************)
PlaygroundWrites ==
    {<<>>, <<"warning">>, <<"error">>, <<"warning", "error">>}

\* PlaygroundProject::run
PlaygroundProject_run(kind) ==
    {[i \in 1..Len(w) |->
         Message("playground-project", kind, w[i],
                 Body("playground", None, None, <<>>, <<>>))] : w \in PlaygroundWrites}

\* PlaygroundPackage::run
PlaygroundPackage_run(kind) ==
    {[i \in 1..Len(w) |->
         Message("playground-package", kind, w[i],
                 Body("playground", None, None, <<>>, <<>>))] : w \in PlaygroundWrites}

(***************************************************************************)
(* Tracked files, their content, and the rules that read them.  A path and *)
(* a decoded content are sequences of characters.                          *)
(***************************************************************************)
LF == "\n"

\* RunStatus and SkipReason
Executed == [type |-> "Executed", reason |-> None, arg |-> <<>>]
Skipped(reason, arg) == [type |-> "Skipped", reason |-> reason, arg |-> arg]

\* The invocation did not return: a panic unwound through it.
Panicked == [type |-> "Panicked", reason |-> None, arg |-> <<>>]

\* LintKind::File and LintKind::Content
KindFile(path) == [type |-> "file", name |-> None, workspace_path |-> path]
KindContent(path) == [type |-> "content", name |-> None, workspace_path |-> path]

\* What ContentContext::content gives: Some(text), or None when the bytes are
\* not UTF-8.
Text(chars) == [utf8 |-> TRUE, text |-> chars]
NotUtf8 == [utf8 |-> FALSE, text |-> <<>>]

\* One tracked file: its path and its content.
File(path, content) == [path |-> path, content |-> content]

\* The file of an invocation that is not about a file.
NoFile == File(<<>>, NotUtf8)

\* What a rule invocation hands back: its RunStatus and what it wrote.
Ran(run_status, out) == [run_status |-> run_status, out |-> out]

\* The largest index of s that holds ch, 0 if none does.
LastIndexOf(s, ch) ==
    IF \E i \in 1..Len(s) : s[i] = ch
    THEN CHOOSE i \in 1..Len(s) : s[i] = ch /\ \A k \in (i + 1)..Len(s) : s[k] # ch
    ELSE 0

\* The pieces of a path between slashes, the empty ones included.
RECURSIVE SplitSlash(_)
SplitSlash(s) ==
    IF \E i \in 1..Len(s) : s[i] = "/"
    THEN LET i == CHOOSE i \in 1..Len(s) : s[i] = "/" /\ \A k \in 1..(i - 1) : s[k] # "/"
         IN  <<SubSeq(s, 1, i - 1)>> \o SplitSlash(SubSeq(s, i + 1, Len(s)))
    ELSE <<s>>

\* Utf8Path::file_name: the last component of the path if it is a normal one.
\* Repeated and trailing slashes and the . pieces after the first component
\* are no components; a path that ends in .. or has no normal component has no
\* file name.  The Option is a sequence of at most one name.
file_name(path) ==
    LET pieces == SplitSlash(path)
        names == SelectSeqF(pieces, [q \in Range(pieces) |-> q # <<>> /\ q # <<".">>])
    IN  IF names = <<>> \/ names[Len(names)] = <<".", ".">> THEN <<>>
        ELSE <<names[Len(names)]>>

\* Utf8Path::extension: what follows the last dot of the file name, nothing if
\* there is no file name, or the name has no dot or only a leading one.  The
\* Option is a sequence of at most one extension.
extension(path) ==
    IF file_name(path) = <<>> THEN <<>>
    ELSE LET name == file_name(path)[1]
             dot == LastIndexOf(name, ".")
         IN  IF dot <= 1 THEN <<>> ELSE <<SubSeq(name, dot + 1, Len(name))>>

\* str::ends_with
ends_with(s, suffix) ==
    /\ Len(suffix) <= Len(s)
    /\ SubSeq(s, Len(s) - Len(suffix) + 1, Len(s)) = suffix

\* str::starts_with
starts_with(s, prefix) ==
    /\ Len(prefix) <= Len(s)
    /\ SubSeq(s, 1, Len(prefix)) = prefix

\* The pieces of s between line feeds, the one after the last line feed included.
RECURSIVE SplitLF(_)
SplitLF(s) ==
    IF \E i \in 1..Len(s) : s[i] = LF
    THEN LET i == CHOOSE i \in 1..Len(s) : s[i] = LF /\ \A k \in 1..(i - 1) : s[k] # LF
         IN  <<SubSeq(s, 1, i - 1)>> \o SplitLF(SubSeq(s, i + 1, Len(s)))
    ELSE <<s>>

\* str::lines: the final line ending is optional, so an empty last piece is no
\* line.  (No content of the model holds a carriage return.)
lines(s) ==
    LET pieces == SplitLF(s)
    IN  IF pieces[Len(pieces)] = <<>> THEN SubSeq(pieces, 1, Len(pieces) - 1)
        ELSE pieces

is_whitespace(ch) == ch \in {" ", "\t", LF}

\* str::trim_end
RECURSIVE trim_end(_)
trim_end(s) ==
    IF s # <<>> /\ is_whitespace(s[Len(s)]) THEN trim_end(SubSeq(s, 1, Len(s) - 1))
    ELSE s

\* str::trim_start_matches: the prefix is removed as often as it repeats.
RECURSIVE trim_start_matches(_, _)
trim_start_matches(s, prefix) ==
    IF starts_with(s, prefix)
    THEN trim_start_matches(SubSeq(s, Len(prefix) + 1, Len(s)), prefix)
    ELSE s

\* Iterator::skip_while over a sequence of lines; test maps a line to a Boolean.
RECURSIVE skip_while(_, _)
skip_while(ls, test) ==
    IF ls # <<>> /\ test[ls[1]] THEN skip_while(Tail(ls), test) ELSE ls

\* Iterator::take
take(ls, n) == SubSeq(ls, 1, IF Len(ls) < n THEN Len(ls) ELSE n)

\* The characters DEFAULT_ALLOWED_PATHS_REGEX admits, among those the model's
\* paths are written with.
AllowedPathChars ==
    {"a", "b", "c", "d", "e", "h", "r", "s", "x", ".", "_", "-", "/", "@", ":"}

\* Regex::is_match for the anchored pattern: one or more admitted characters.
allowed_regex_is_match(path) ==
    path # <<>> /\ \A i \in 1..Len(path) : path[i] \in AllowedPathChars

\* AllowedPaths::run
AllowedPaths_run(file) ==
    Ran(Executed,
        IF ~allowed_regex_is_match(file.path)
        THEN write_kind("allowed-paths", KindFile(file.path), "error",
                        Body("path doesn't match allowed regex", None, None, <<>>, <<>>))
        ELSE <<>>)

\* FileType::new: the file type of a path, None for an extension it does not know.
FileType_new(path) ==
    LET ext == extension(path)
    IN  CASE ext = <<<<"r", "s">>>> -> "Rust"
          [] ext = <<<<"s", "h">>>> -> "Shell"
          [] ext = <<<<"p", "r", "o", "t", "o">>>> -> "Proto"
          [] ext \in {<<<<"j", "s">>>>, <<<<"j", "s", "x">>>>, <<<<"c", "j", "s">>>>,
                      <<<<"m", "j", "s">>>>} -> "JavaScript"
          [] ext \in {<<<<"t", "s">>>>, <<<<"t", "s", "x">>>>, <<<<"m", "t", "s">>>>,
                      <<<<"c", "t", "s">>>>} -> "TypeScript"
          [] ext = <<<<"m", "o", "v", "e">>>> -> "Move"
          [] ext = <<<<"p", "y">>>> -> "Python"
          [] OTHER -> None

\* The test of LicenseHeader::run: is the header missing from the content?
LicenseHeader_missing_header(file_type, header, content) ==
    LET is_empty == [line \in Range(lines(content)) |-> line = <<>>]
        is_shebang == [line \in Range(lines(content)) |->
                          starts_with(line, <<"#", "!">>)]
        comment == IF file_type \in {"Shell", "Python"} THEN <<"#", " ">>
                   ELSE <<"/", "/", " ">>
        after == IF file_type \in {"Shell", "Python"}
                 THEN skip_while(skip_while(lines(content), is_shebang), is_empty)
                 ELSE skip_while(lines(content), is_empty)
        maybe_license == {trim_start_matches(l, comment) : l \in Range(take(after, 4))}
    IN  ~(Range(lines(header)) \subseteq maybe_license)

\* LicenseHeader::pre_run
LicenseHeader_pre_run(file) ==
    IF FileType_new(file.path) # None THEN Executed
    ELSE Skipped("UnsupportedExtension", extension(file.path))

\* LicenseHeader::run; the expect on FileType::new panics for a path pre_run
\* would have skipped.
LicenseHeader_run(header, file) ==
    IF ~file.content.utf8 THEN Ran(Skipped("NonUtf8Content", <<>>), <<>>)
    ELSE IF FileType_new(file.path) = None
    THEN Ran(Panicked, <<>>)
    ELSE Ran(Executed,
             IF LicenseHeader_missing_header(FileType_new(file.path), header,
                                             file.content.text)
             THEN write_kind("license-header", KindContent(file.path), "error",
                             Body("missing license header", None, None, <<>>, <<>>))
             ELSE <<>>)

\* GlobSet::is_match, for exception patterns of the form *suffix.
exceptions_is_match(exceptions, path) ==
    \E suffix \in exceptions : ends_with(path, suffix)

\* skip_whitespace_checks
skip_whitespace_checks(exceptions, file) ==
    IF exceptions_is_match(exceptions, file.path)
    THEN Skipped("UnsupportedFile", file.path)
    ELSE Executed

\* EofNewline::run
EofNewline_run(file) ==
    IF ~file.content.utf8 THEN Ran(Skipped("NonUtf8Content", <<>>), <<>>)
    ELSE Ran(Executed,
             IF file.content.text # <<>> /\ ~ends_with(file.content.text, <<LF>>)
             THEN write_kind("eof-newline", KindContent(file.path), "error",
                             Body("missing newline at EOF", None, None, <<>>, <<>>))
             ELSE <<>>)

\* TrailingWhitespace::run
TrailingWhitespace_run(file) ==
    IF ~file.content.utf8 THEN Ran(Skipped("NonUtf8Content", <<>>), <<>>)
    ELSE LET ls == lines(file.content.text)
             blank_at_end == ls # <<>> /\ ls[Len(ls)] = <<>>
         IN  Ran(Executed,
                 Concat([ln \in 1..Len(ls) |->
                     IF trim_end(ls[ln]) # ls[ln]
                     THEN write_kind("trailing-whitespace", KindContent(file.path),
                                     "error",
                                     Body("trailing whitespace at line", None, None,
                                          <<ln>>, <<>>))
                     ELSE <<>>])
                 \o (IF blank_at_end
                     THEN write_kind("trailing-whitespace", KindContent(file.path),
                                     "error",
                                     Body("trailing whitespace at EOF", None, None,
                                          <<>>, <<>>))
                     ELSE <<>>))

(***************************************************************************)
(* NexLintContext and GitCli: construction and the two OnceCell caches.    *)
(* A path is a sequence of characters.                                     *)
(***************************************************************************)
\* Utf8Path::components: the root directory, if the path starts with a slash,
\* and the names between slashes; repeated and trailing slashes give nothing,
\* and neither does a . piece unless it starts the path.
components(path) ==
    LET pieces == SplitSlash(path)
        first == IF pieces[1] # <<>> THEN <<pieces[1]>> ELSE <<>>
        names == SelectSeqF(Tail(pieces),
                            [q \in Range(Tail(pieces)) |-> q # <<>> /\ q # <<".">>])
    IN  (IF starts_with(path, <<"/">>) THEN <<<<"/">>>> ELSE <<>>) \o first \o names

\* Equality of paths, which compares components.
path_eq(p, q) == components(p) = components(q)

\* The path written out from components that are not the root directory.
RECURSIVE from_names(_)
from_names(names) ==
    IF names = <<>> THEN <<>>
    ELSE IF Len(names) = 1 THEN names[1]
    ELSE names[1] \o <<"/">> \o from_names(Tail(names))

\* Mutation of strip_prefix: the characters of base are matched, not its
\* components.
strip_prefix_by_characters(path, base) ==
    IF starts_with(path, base)
    THEN [ok |-> TRUE,
          rel |-> from_names(SelectSeqF(SplitSlash(SubSeq(path, Len(base) + 1, Len(path))),
                                        [q \in Range(SplitSlash(SubSeq(path, Len(base) + 1,
                                                                       Len(path)))) |->
                                            q # <<>>]))]
    ELSE [ok |-> FALSE, rel |-> <<>>]

\* Utf8Path::strip_prefix: the components of base must start those of path; what
\* follows them is the relative path.
strip_prefix(path, base) ==
    LET pc == components(path)
        bc == components(base)
    IN  IF Len(bc) <= Len(pc) /\ SubSeq(pc, 1, Len(bc)) = bc
        THEN [ok |-> TRUE, rel |-> from_names(SubSeq(pc, Len(bc) + 1, Len(pc)))]
        ELSE [ok |-> FALSE, rel |-> <<>>]

\* Utf8Path::join: an absolute path replaces the base, a relative one is pushed
\* after a separator.
join(base, path) ==
    IF starts_with(path, <<"/">>) THEN path
    ELSE IF base # <<>> /\ base[Len(base)] = "/" THEN base \o path
    ELSE base \o <<"/">> \o path

\* git rev-parse --show-toplevel printed the root /w/r followed by a line feed.
RevParseRoot ==
    [spawned |-> TRUE, success |-> TRUE, utf8 |-> TRUE,
     stdout |-> <<"/", "w", "/", "r", LF>>]

\* What git rev-parse --show-toplevel can give: git cannot be started, a
\* failure status, bytes that are not UTF-8, or the root followed by a line
\* feed.
RevParseOutcomes ==
    {[spawned |-> FALSE, success |-> FALSE, utf8 |-> TRUE, stdout |-> <<>>],
     [spawned |-> TRUE, success |-> FALSE, utf8 |-> TRUE, stdout |-> <<>>],
     [spawned |-> TRUE, success |-> TRUE, utf8 |-> FALSE, stdout |-> <<"?", LF>>],
     RevParseRoot}

\* GitCli::repository_root: a command that cannot be started is an Io error, a
\* failure status and a path that is not UTF-8 are GitRoot errors; otherwise
\* the last byte, the line feed, is popped off the output.
repository_root(output) ==
    IF ~output.spawned THEN [ok |-> FALSE, error |-> "Io", root |-> <<>>]
    ELSE IF ~output.success THEN [ok |-> FALSE, error |-> "GitRoot", root |-> <<>>]
    ELSE IF ~output.utf8 THEN [ok |-> FALSE, error |-> "GitRoot", root |-> <<>>]
    ELSE [ok |-> TRUE, error |-> None,
          root |-> SubSeq(output.stdout, 1, Len(output.stdout) - 1)]

\* No context was built.
NoContext ==
    [current_dir |-> <<>>, current_rel_dir |-> <<>>, root |-> <<>>,
     tracked_files |-> <<>>, package_graph |-> <<>>, built |-> FALSE]

\* NexLintContext::new (with GitCli::new): the context, or the SystemError; the
\* error of GitCli::new is handed on as it is.
NexLintContext_new(current_dir, rev_parse) ==
    LET git_cli == repository_root(rev_parse)
        rel_dir == strip_prefix(current_dir, git_cli.root)
    IN  IF ~git_cli.ok
        THEN [ok |-> FALSE, error |-> git_cli.error, context |-> NoContext]
        ELSE IF ~rel_dir.ok
        THEN [ok |-> FALSE, error |-> "CwdNotInProjectRoot", context |-> NoContext]
        ELSE [ok |-> TRUE, error |-> None,
              context |-> [current_dir |-> current_dir,
                           current_rel_dir |-> rel_dir.rel,
                           root |-> git_cli.root,
                           tracked_files |-> <<>>, package_graph |-> <<>>,
                           built |-> TRUE]]

\* NexLintContext::current_dir_is_root
current_dir_is_root(c) == path_eq(c.current_rel_dir, <<>>)

\* What git ls-files -z can give when it is run: git cannot be started, a
\* failure status, bytes that are not UTF-8, or a list of paths.
LsFilesOutcomes == {"not-spawned", "exit-1", "non-utf8", "files-1", "files-2"}

\* What cargo metadata can give when it is run: an error or a graph.
CargoMetadataOutcomes == {"error", "graph-1", "graph-2"}

\* The closure of GitCli::tracked_files: the outcome of the command as a Result.
tracked_files_init(outcome) ==
    CASE outcome = "not-spawned" -> [ok |-> FALSE, value |-> None, error |-> "Io"]
      [] outcome = "exit-1" -> [ok |-> FALSE, value |-> None, error |-> "Exec"]
      [] outcome = "non-utf8" -> [ok |-> FALSE, value |-> None, error |-> "NonUtf8Path"]
      [] OTHER -> [ok |-> TRUE, value |-> outcome, error |-> None]

\* The closure of NexLintContext::package_graph.
package_graph_init(outcome) ==
    IF outcome = "error" THEN [ok |-> FALSE, value |-> None, error |-> "Guppy"]
    ELSE [ok |-> TRUE, value |-> outcome, error |-> None]

\* Mutation of get_or_try_init: a failed run of the closure fills the cell too,
\* with no value, and the command is not run again.
get_or_try_init_storing_failure(cell, init) ==
    IF cell # <<>>
    THEN [cell |-> cell, ok |-> TRUE, value |-> cell[1], error |-> None, ran |-> 0]
    ELSE IF init.ok
    THEN [cell |-> <<init.value>>, ok |-> TRUE, value |-> init.value,
          error |-> None, ran |-> 1]
    ELSE [cell |-> <<None>>, ok |-> FALSE, value |-> None, error |-> init.error,
          ran |-> 1]

\* Mutation of get_or_try_init: the closure is run on every call and what it
\* gives replaces the value of the cell.
get_or_try_init_every_call(cell, init) ==
    IF init.ok
    THEN [cell |-> <<init.value>>, ok |-> TRUE, value |-> init.value,
          error |-> None, ran |-> 1]
    ELSE [cell |-> cell, ok |-> FALSE, value |-> None, error |-> init.error,
          ran |-> 1]

\* OnceCell::get_or_try_init: a full cell gives its value and the closure does
\* not run; an empty one runs it, and is filled only if it succeeds.  init is
\* what the closure gives if it is run now, ran counts its runs.
get_or_try_init(cell, init) ==
    IF cell # <<>>
    THEN [cell |-> cell, ok |-> TRUE, value |-> cell[1], error |-> None, ran |-> 0]
    ELSE IF init.ok
    THEN [cell |-> <<init.value>>, ok |-> TRUE, value |-> init.value,
          error |-> None, ran |-> 1]
    ELSE [cell |-> cell, ok |-> FALSE, value |-> None, error |-> init.error,
          ran |-> 1]

\* The hexadecimal digits and their values.
HexDigits ==
    <<"0", "1", "2", "3", "4", "5", "6", "7", "8", "9", "a", "b", "c", "d", "e", "f">>
UpperHexDigits == <<"A", "B", "C", "D", "E", "F">>

is_hex_digit(c) == c \in Range(HexDigits) \cup Range(UpperHexDigits)

\* The value of one hexadecimal digit, of either case.
hex_val(c) ==
    IF c \in Range(HexDigits)
    THEN (CHOOSE i \in 1..Len(HexDigits) : HexDigits[i] = c) - 1
    ELSE (CHOOSE i \in 1..Len(UpperHexDigits) : UpperHexDigits[i] = c) + 9

\* The bytes of a GitHash.
GitHashLen == 20

\* GitHash::from_hex: FromHex for [u8; 20] takes exactly two digits per byte;
\* every failure becomes SystemError::FromHex.
GitHash_from_hex(hex) ==
    IF Len(hex) % 2 # 0 \/ Len(hex) \div 2 # GitHashLen
       \/ \E i \in 1..Len(hex) : ~is_hex_digit(hex[i])
    THEN [type |-> "Err", value |-> <<>>, error |-> "FromHex"]
    ELSE [type |-> "Ok",
          value |-> [i \in 1..GitHashLen |->
                        16 * hex_val(hex[2 * i - 1]) + hex_val(hex[2 * i])],
          error |-> None]

\* len - 1 on usize: below zero the subtraction panics where overflow checks
\* are compiled in and wraps around to usize::MAX where they are not.
usize_sub_one(len, overflow_checks) ==
    IF len >= 1 THEN [panics |-> FALSE, wrapped |-> FALSE, value |-> len - 1]
    ELSE IF overflow_checks THEN [panics |-> TRUE, wrapped |-> FALSE, value |-> 0]
    ELSE [panics |-> FALSE, wrapped |-> TRUE, value |-> 0]

\* &bytes[..end]: an end beyond the length panics; a wrapped end is usize::MAX.
slice_to(bytes, end) ==
    IF end.wrapped \/ end.value > Len(bytes)
    THEN [panics |-> TRUE, bytes |-> <<>>]
    ELSE [panics |-> FALSE, bytes |-> SubSeq(bytes, 1, end.value)]

\* The call did not return: the thread panicked.
Panic == [type |-> "Panic", value |-> <<>>, error |-> "<panic>"]

\* GitCli::merge_base on what git merge-base gave.
merge_base(output, overflow_checks) ==
    IF ~output.spawned THEN [type |-> "Err", value |-> <<>>, error |-> "Io"]
    ELSE IF ~output.success THEN [type |-> "Err", value |-> <<>>, error |-> "Exec"]
    ELSE LET end == usize_sub_one(Len(output.stdout), overflow_checks)
             stdout == slice_to(output.stdout, end)
         IN  IF end.panics \/ stdout.panics THEN Panic
             ELSE GitHash_from_hex(stdout.bytes)

\* n times the character c.
Repeat(c, n) == [i \in 1..n |-> c]

\* What git merge-base HEAD <commit> can give: it cannot be run, it fails, or
\* it succeeds with some output.
MergeBaseOutputs ==
    {[spawned |-> FALSE, success |-> FALSE, stdout |-> <<>>],
     [spawned |-> TRUE, success |-> FALSE, stdout |-> <<>>]}
    \cup
    {[spawned |-> TRUE, success |-> TRUE, stdout |-> out] :
        out \in {<<>>, <<LF>>,
                 Repeat("a", 2 * GitHashLen) \o <<LF>>,
                 Repeat("a", 2 * GitHashLen),
                 Repeat("F", 2 * GitHashLen - 1) \o <<"0", LF>>,
                 Repeat("g", 2 * GitHashLen) \o <<LF>>,
                 <<"a", "b", LF>>,
                 Repeat("1", 2 * GitHashLen + 2) \o <<LF>>}}

\* The directories the process can be in.
CurrentDirs ==
    { <<"/", "w", "/", "r">>, <<"/", "w", "/", "r", "/", "s">>,
      <<"/", "w", "/", "r", "/", "s", "/", "s">>, <<"/", "w">>,
      <<"/", "w", "/", "r", "s">>, <<"/", "w", "/", "s">>, <<"/">> }

\* Nothing was called yet.  seq numbers the calls, would is what the external
\* command gave had it been run by the call.
NothingReturned ==
    [seq |-> 0, call |-> None, ok |-> TRUE, value |-> None, error |-> None,
     would |-> None]

\* The threads that share one context.
Threads == 1..MaxThreads

\* A thread that has not called the accessor.
NotCalled == [pc |-> "idle", ok |-> FALSE, value |-> None, error |-> None,
              waited |-> FALSE, output |-> None]

\* An empty once_cell::sync::OnceCell, for one of the two caches.
EmptyCell(cache) == [cache |-> cache, state |-> "Incomplete", slot |-> <<>>]

\* Mutation of initialize_or_wait: no thread waits for a running initialiser
\* (the behaviour of once_cell::unsync::OnceCell).
initialize_or_wait_unsync(state) ==
    IF state = "Complete" THEN "return" ELSE "init"

\* What a thread that enters initialize does on the state it finds: return
\* when the cell is complete, take the cell and run its closure when it is
\* incomplete, wait while another thread's closure is running.
initialize_or_wait(state) ==
    CASE state = "Complete" -> "return"
      [] state = "Incomplete" -> "init"
      [] state = "Running" -> "wait"

\* No thread shares the context.
SharedIdle ==
    /\ once = EmptyCell("tracked_files")
    /\ callers = [t \in Threads |-> NotCalled]
    /\ initialised = 0

\* A process in the root /w/r of a repository, and what cargo metadata and
\* git ls-files give when it runs them.
Os(cargo_metadata, git_ls_files) ==
    [current_dir |-> <<"/", "w", "/", "r">>, env_current_dir |-> "ok",
     git_rev_parse |-> RevParseRoot,
     git_ls_files |-> git_ls_files, cargo_metadata |-> cargo_metadata]

\* The outcomes of git ls-files that are failures of tracked_files().
LsFilesFailures == {ls \in LsFilesOutcomes : ~tracked_files_init(ls).ok}

\* The command has not built its context.
ContextIdle ==
    /\ nexlint_context = NoContext
    /\ returned = NothingReturned
    /\ commands = [git_ls_files |-> 0, cargo_metadata |-> 0]
    /\ SharedIdle

(***************************************************************************)
(* The engine (LintEngine::run), built by x/src/lint.rs from a             *)
(* LintEngineConfig.                                                       *)
(***************************************************************************)
\* ProjectLinter::run by linter: the set of outputs the invocation can have.
ProjectLinter_run(linter, c, cfg) ==
    CASE linter = "banned-deps" -> BannedDeps_run(c, cfg.banned)
      [] linter = "direct-dep-dups" -> {DirectDepDups_run(c, cfg.allow)}
      [] linter = "direct-duplicate-git-dependencies" ->
            {DirectDuplicateGitDependencies_run(c)}
      [] linter = "playground-project" -> PlaygroundProject_run(KindProject)

\* PackageLinter::run by linter: the set of outputs the invocation can have.
PackageLinter_run(linter, c, cfg, package) ==
    CASE linter = "crate-names-paths" -> {CrateNamesPaths_run(c, package)}
      [] linter = "irrelevant-build-deps" -> {IrrelevantBuildDeps_run(c, package)}
      [] linter = "enforced-attributes" ->
            {EnforcedAttributes_run(cfg.enforced, c, package)}
      [] linter = "unpublished-packages-only-use-path-dependencies" ->
            {UnpublishedPackagesOnlyUsePathDependencies_run(c, package)}
      [] linter = "published-packages-dont-depend-on-unpublished-packages" ->
            {PublishedPackagesDontDependOnUnpublishedPackages_run(c, package)}
      [] linter = "only-publish-to-crates-io" -> {OnlyPublishToCratesIo_run(c, package)}
      [] linter = "crates-in-crates-directory" -> {CratesInCratesDirectory_run(c, package)}
      [] linter = "crates-only-in-crates-directory" ->
            {CratesOnlyInCratesDirectory_run(c, package)}
      [] linter = "playground-package" ->
            PlaygroundPackage_run(PackageContext_kind(package))

\* The package targets of a run: the workspace members, ordered by name.
PackageTargets(graph) ==
    LET members == {p \in Range(graph.packages) : p.in_workspace}
    IN  SortedKeys(members, [p \in members |-> StrRank(p.name)])

\* RootToml (nexlint-lints/src/toml.rs is not among the sources) is a content
\* rule like the others: its pre_run hook may skip a path by its extension, and
\* lets through the paths whose extension the rule supports.  Which extensions
\* these are is not known: root_toml says whether the hook lets every path
\* through, and otherwise which extensions it does.
RootToml_pre_run(root_toml, file) ==
    IF root_toml.every \/ extension(file.path) \in root_toml.extensions
    THEN Executed
    ELSE Skipped("UnsupportedExtension", extension(file.path))

\* RootToml::run: content that is not text is marked Skipped(NonUtf8Content)
\* and not read further; what the rule finds in a text is not known, it may
\* write nothing or an error.
RootToml_run(file) ==
    IF ~file.content.utf8 THEN {Ran(Skipped("NonUtf8Content", <<>>), <<>>)}
    ELSE {Ran(Executed, out) :
             out \in {<<>>,
                      write_kind("root-toml", KindContent(file.path), "error",
                                 Body("root manifest", None, None, <<>>, <<>>))}}

\* PlaygroundFilePath::run
PlaygroundFilePath_run(kind) ==
    {Ran(Executed,
        [i \in 1..Len(w) |->
                  Message("playground-file-path", kind, w[i],
                          Body("playground", None, None, <<>>, <<>>))]) :
        w \in PlaygroundWrites}

\* PlaygroundContent::run
PlaygroundContent_run(kind) ==
    {Ran(Executed,
        [i \in 1..Len(w) |->
                  Message("playground-content", kind, w[i],
                          Body("playground", None, None, <<>>, <<>>))]) :
        w \in PlaygroundWrites}

\* FilePathLinter::pre_run by linter; a linter that does not define the hook
\* lets every path through.
FilePathLinter_pre_run(linter, cfg, file) == Executed

\* FilePathLinter::run by linter: the set of outcomes the invocation can have.
FilePathLinter_run(linter, cfg, file) ==
    CASE linter = "allowed-paths" -> {AllowedPaths_run(file)}
      [] linter = "playground-file-path" -> PlaygroundFilePath_run(KindFile(file.path))

\* ContentLinter::pre_run by linter; PlaygroundContent does not define the hook.
ContentLinter_pre_run(linter, cfg, file) ==
    CASE linter = "license-header" -> LicenseHeader_pre_run(file)
      [] linter = "root-toml" -> RootToml_pre_run(cfg.root_toml, file)
      [] linter \in {"eof-newline", "trailing-whitespace"} ->
            skip_whitespace_checks(cfg.exceptions, file)
      [] linter = "playground-content" -> Executed

\* ContentLinter::run by linter: the set of outcomes the invocation can have.
ContentLinter_run(linter, cfg, file) ==
    CASE linter = "license-header" -> {LicenseHeader_run(cfg.license_header, file)}
      [] linter = "root-toml" -> RootToml_run(file)
      [] linter = "eof-newline" -> {EofNewline_run(file)}
      [] linter = "trailing-whitespace" -> {TrailingWhitespace_run(file)}
      [] linter = "playground-content" -> PlaygroundContent_run(KindContent(file.path))

\* The (target, linter) invocations of a run, in the order the engine makes them:
\* the project linters, then for each package target the package linters, then
\* for each tracked file the file path linters, then for each tracked file the
\* content linters.
Invocations(c, cfg) ==
    LET targets == PackageTargets(c.package_graph)
        files == c.tracked_files
    IN  [i \in 1..Len(cfg.project_linters) |->
            [variant |-> "project", target |-> KindProject, package |-> None,
             file |-> NoFile, linter |-> cfg.project_linters[i]]]
        \o
        Concat([t \in 1..Len(targets) |->
                   [i \in 1..Len(cfg.package_linters) |->
                       [variant |-> "package",
                        target |-> PackageContext_kind(targets[t]),
                        package |-> targets[t].id,
                        file |-> NoFile,
                        linter |-> cfg.package_linters[i]]]])
        \o
        Concat([f \in 1..Len(files) |->
                   [i \in 1..Len(cfg.file_path_linters) |->
                       [variant |-> "file_path",
                        target |-> KindFile(files[f].path),
                        package |-> None,
                        file |-> files[f],
                        linter |-> cfg.file_path_linters[i]]]])
        \o
        Concat([f \in 1..Len(files) |->
                   [i \in 1..Len(cfg.content_linters) |->
                       [variant |-> "content",
                        target |-> KindContent(files[f].path),
                        package |-> None,
                        file |-> files[f],
                        linter |-> cfg.content_linters[i]]]])

\* The position in invs, the invocations of a run, of the first invocation of
\* the file phases.
FilePhaseStart(c, cfg, invs) ==
    Len(invs)
    - Len(c.tracked_files) * (Len(cfg.file_path_linters) + Len(cfg.content_linters))
    + 1

HasError(out) == \E i \in 1..Len(out) : out[i].level = "error"

\* Mutation of StopsRun: any message stops a fail-fast run, warnings included.
StopsRun_on_any_message(cfg, out) == cfg.fail_fast /\ out # <<>>

\* Mutation of StopsRun: the fail_fast flag is never consulted.
StopsRun_never(cfg, out) == FALSE

\* The fail-fast check made after a rule invocation.
StopsRun(cfg, out) == cfg.fail_fast /\ HasError(out)

\* LintResults, as run() returns them.
LintResults(msgs, skips) ==
    [type |-> "Ok", messages |-> msgs, skipped |-> skips, error |-> None]

\* run() has not returned.
NoResult == [type |-> "None", messages |-> <<>>, skipped |-> <<>>, error |-> None]

\* A SystemError, as run() returns it.
SystemError(what) == [type |-> "Err", messages |-> <<>>, skipped |-> <<>>,
                      error |-> what]

\* The engine's bookkeeping after one invocation: pre is what pre_run reported,
\* r what run handed back (run is not invoked unless pre is Executed).
Recorded(inv, pre, r) ==
    LET run_invoked == pre.type = "Executed"
        out == IF run_invoked THEN r.out ELSE <<>>
        run_status == IF run_invoked THEN r.run_status ELSE pre
        skips == IF run_status.type = "Skipped"
                 THEN Append(skipped, [linter |-> inv.linter, target |-> inv.target,
                                       reason |-> run_status.reason,
                                       arg |-> run_status.arg])
                 ELSE skipped
    IN  /\ messages' = messages \o out
        /\ origin' = origin \o [i \in 1..Len(out) |-> pos]
        /\ skipped' = skips
        /\ last' = [linter |-> inv.linter, variant |-> inv.variant,
                    target |-> inv.target,
                    package |-> inv.package, out |-> out, file |-> inv.file,
                    pre_run |-> pre, run_invoked |-> run_invoked,
                    run_status |-> run_status]
        /\ pos' = pos + 1
        /\ status' = IF run_status.type = "Panicked" THEN "Panicked"
                     ELSE IF StopsRun(config, out) THEN "FailedFast" ELSE "Running"
        /\ result' = IF run_status.type # "Panicked" /\ StopsRun(config, out)
                     THEN LintResults(messages \o out, skips) ELSE result
        /\ UNCHANGED <<ctx, config, printed, exit>>

\* The bookkeeping after a project or package linter, which has no pre_run hook,
\* wrote out.
Invoked(inv, out) == Recorded(inv, Executed, Ran(Executed, out))

\* Does the invocation read the package graph?
NeedsGraph(inv) ==
    \/ inv.variant = "package"
    \/ /\ inv.variant = "project"
       /\ inv.linter \in {"banned-deps", "direct-dep-dups",
                          "direct-duplicate-git-dependencies"}

\* What package_graph() and tracked_files() give when they are called on the
\* context now.
package_graph_now ==
    get_or_try_init(nexlint_context.package_graph, package_graph_init(os.cargo_metadata))
tracked_files_now ==
    get_or_try_init(nexlint_context.tracked_files, tracked_files_init(os.git_ls_files))

\* Does the step the run is about to make, at pos of invs, call package_graph()?
\* Does it call tracked_files(), which the engine does once the package phase
\* is over if a file path or content linter is configured?
ReadsGraph(invs) == pos <= Len(invs) /\ NeedsGraph(invs[pos])
ReadsFiles(invs) ==
    /\ config.file_path_linters # <<>> \/ config.content_linters # <<>>
    /\ pos = FilePhaseStart(ctx, config, invs)

\* A call of package_graph() (graph) and of tracked_files() (files) on the
\* context: an empty cell runs its command and is filled if that succeeds.
ContextRead(graph, files) ==
    /\ nexlint_context' =
          [nexlint_context EXCEPT
              !.package_graph = IF graph THEN package_graph_now.cell ELSE @,
              !.tracked_files = IF files THEN tracked_files_now.cell ELSE @]
    /\ commands' =
          [commands EXCEPT
              !.cargo_metadata = @ + (IF graph THEN package_graph_now.ran ELSE 0),
              !.git_ls_files = @ + (IF files THEN tracked_files_now.ran ELSE 0)]
    /\ UNCHANGED <<os, returned>>
    /\ UNCHANGED svars

\* Does the step the run is about to make, at pos of invs, raise a SystemError?
Raises(invs) ==
    \/ ReadsGraph(invs) /\ ~package_graph_now.ok
    \/ ReadsFiles(invs) /\ ~tracked_files_now.ok

\* NexLintContext::from_current_dir: the working directory of the process, if
\* it is to be had and is UTF-8, is handed to new.
from_current_dir(process) ==
    CASE process.env_current_dir = "io-error" ->
            [ok |-> FALSE, error |-> "Io", context |-> NoContext]
      [] process.env_current_dir = "non-utf8" ->
            [ok |-> FALSE, error |-> "Camino", context |-> NoContext]
      [] OTHER -> NexLintContext_new(process.current_dir, process.git_rev_parse)

\* The command builds its context (x/src/lint.rs, x/src/playground.rs): if
\* that fails the command ends with the error, and no engine is built.
FromCurrentDir ==
    /\ status = "Idle"
    /\ nexlint_context = NoContext
    /\ returned.seq = 0
    /\ exit = None
    /\ LET r == from_current_dir(os)
       IN  /\ nexlint_context' = r.context
           /\ returned' = [seq |-> 1, call |-> "from_current_dir", ok |-> r.ok,
                           value |-> None, error |-> r.error, would |-> None]
           /\ exit' = IF r.ok THEN exit ELSE "failure"
    /\ UNCHANGED <<ctx, config, status, pos, messages, skipped, origin, last,
                   result, printed>>
    /\ UNCHANGED <<os, commands>>
    /\ UNCHANGED svars

\* run() is called on the engine built over the context: Idle -> Running.
Start ==
    /\ status = "Idle"
    /\ nexlint_context.built
    /\ status' = "Running"
    /\ UNCHANGED <<ctx, config, pos, messages, skipped, origin, last,
                   result, printed, exit>>
    /\ UNCHANGED cvars

\* Step 1 of run(): one project linter runs against the project context.
RunProjectLinter ==
    /\ status = "Running"
    /\ LET invs == Invocations(ctx, config)
           inv == invs[pos]
       IN  /\ pos <= Len(invs)
           /\ ~Raises(invs)
           /\ inv.variant = "project"
           /\ \E out \in ProjectLinter_run(inv.linter, ctx, config) : Invoked(inv, out)
           /\ ContextRead(ReadsGraph(invs), ReadsFiles(invs))

\* Step 2 of run(): one package linter runs against one workspace member.
RunPackageLinter ==
    /\ status = "Running"
    /\ LET invs == Invocations(ctx, config)
           inv == invs[pos]
       IN  /\ pos <= Len(invs)
           /\ ~Raises(invs)
           /\ inv.variant = "package"
           /\ \E out \in PackageLinter_run(inv.linter, ctx, config,
                                           metadata(ctx.package_graph, inv.package)) :
                 Invoked(inv, out)
           /\ ContextRead(ReadsGraph(invs), ReadsFiles(invs))

\* Step 3 of run(): one file path linter is consulted for one tracked file.
RunFilePathLinter ==
    /\ status = "Running"
    /\ LET invs == Invocations(ctx, config)
           inv == invs[pos]
       IN  /\ pos <= Len(invs)
           /\ ~Raises(invs)
           /\ inv.variant = "file_path"
           /\ \E pre \in {FilePathLinter_pre_run(inv.linter, config, inv.file)} :
                 IF pre.type = "Executed"
                 THEN \E r \in FilePathLinter_run(inv.linter, config, inv.file) :
                         Recorded(inv, pre, r)
                 ELSE Recorded(inv, pre, Ran(pre, <<>>))
           /\ ContextRead(ReadsGraph(invs), ReadsFiles(invs))

\* Step 4 of run(): one content linter is consulted for one tracked file.
RunContentLinter ==
    /\ status = "Running"
    /\ LET invs == Invocations(ctx, config)
           inv == invs[pos]
       IN  /\ pos <= Len(invs)
           /\ ~Raises(invs)
           /\ inv.variant = "content"
           /\ \E pre \in {ContentLinter_pre_run(inv.linter, config, inv.file)} :
                 IF pre.type = "Executed"
                 THEN \E r \in ContentLinter_run(inv.linter, config, inv.file) :
                         Recorded(inv, pre, r)
                 ELSE Recorded(inv, pre, Ran(pre, <<>>))
           /\ ContextRead(ReadsGraph(invs), ReadsFiles(invs))

\* The package graph or the tracked files are not to be had when the run asks
\* for them: run() returns the SystemError of the call and nothing else.
Abort ==
    /\ status = "Running"
    /\ LET invs == Invocations(ctx, config)
       IN  /\ Raises(invs)
           /\ result' = SystemError(IF ReadsGraph(invs) THEN package_graph_now.error
                                    ELSE tracked_files_now.error)
           /\ ContextRead(ReadsGraph(invs), ReadsFiles(invs))
    /\ status' = "SystemError"
    /\ UNCHANGED <<ctx, config, pos, messages, skipped, origin, last,
                   printed, exit>>

\* Step 7 of run(): every invocation was made, the full results are returned.
Complete ==
    /\ status = "Running"
    /\ LET invs == Invocations(ctx, config)
       IN  /\ pos > Len(invs)
           /\ ~Raises(invs)
           /\ ContextRead(ReadsGraph(invs), ReadsFiles(invs))
    /\ status' = "Completed"
    /\ result' = LintResults(messages, skipped)
    /\ UNCHANGED <<ctx, config, pos, messages, skipped, origin, last,
                   printed, exit>>

\* handle_lint_results: every message is printed, and the command fails if
\* there is any.
handle_lint_results(results) ==
    [printed |-> results.messages,
     exit |-> IF results.messages # <<>> THEN "failure" ELSE "success"]

\* Mutation of lint_run: the error run() returned is not propagated, it is
\* handed to handle_lint_results like results.
lint_run_swallowing_error(res) == handle_lint_results(res)

\* The end of run in x/src/lint.rs: the ? on engine.run() returns a SystemError
\* to main, and only results are handed to handle_lint_results.
lint_run(res) ==
    IF res.type = "Err" THEN [printed |-> <<>>, exit |-> "failure"]
    ELSE handle_lint_results(res)

\* The command ends once run() has returned.
Exit ==
    /\ result # NoResult
    /\ exit = None
    /\ printed' = lint_run(result).printed
    /\ exit' = lint_run(result).exit
    /\ UNCHANGED <<ctx, config, status, pos, messages, skipped, origin, last,
                   result>>
    /\ UNCHANGED cvars

Next ==
    \/ FromCurrentDir
    \/ Start
    \/ RunProjectLinter
    \/ RunPackageLinter
    \/ RunFilePathLinter
    \/ RunContentLinter
    \/ Abort
    \/ Complete
    \/ Exit

(***************************************************************************)
(* The workspaces and configurations the runs start from.                  *)
(***************************************************************************)
\* The values of PackagePublish a manifest can give.
Publishes ==
    {Unrestricted, Registries(<<>>), Registries(<<CRATES_IO>>),
     Registries(<<"other">>), Registries(<<CRATES_IO, "other">>),
     Registries(<<"other", CRATES_IO>>)}

\* Workspace paths of package a.
Paths ==
    {<<>>, <<"crates">>, <<"crates", "a">>, <<"crates", "other">>, <<"lib", "a">>,
     <<"crates", "a", "sub">>, <<"crates", "other", "sub">>, <<"a">>}

\* Where the third-party packages come from.
Sources ==
    {[x1 |-> GitSource("r1", "h1"), x2 |-> GitSource("r1", "h2"), y |-> RegistrySource],
     [x1 |-> GitSource("r1", "h1"), x2 |-> GitSource("r2", "h2"),
      y |-> GitSource("r2", "h1")]}

\* The packages the manifests and the lock file name: three workspace members
\* (one of them the workspace-hack package) and three third-party packages, two
\* of them versions of the same crate.  build_graph keeps the third-party
\* packages that a link reaches.
Packages(pathA, pubA, pubB, pubX, src) ==
    << Package("a", "a", 1, TRUE, pathA, pubA, WorkspaceSource),
       Package("b", "b", 1, TRUE, <<"crates", "b">>, pubB, WorkspaceSource),
       Package("hack", "hack", 1, TRUE, <<"workspace-hack">>, Registries(<<>>),
               WorkspaceSource),
       Package("x1", "x", 1, FALSE, <<>>, pubX, src.x1),
       Package("x2", "x", 2, FALSE, <<>>, Unrestricted, src.x2),
       Package("y", "y", 1, FALSE, <<>>, Unrestricted, src.y) >>

\* The dependency links the manifests may declare.  A manifest names a
\* dependency once: the second package called x that a or b depends on is
\* declared under another name (x_alt = { package = "x" }).
LinkPairs ==
    << Link("a", "x1", "1.0", "x"), Link("b", "x2", "1.0", "x"),
       Link("a", "x2", "1.0", "x_alt"), Link("b", "x1", "1.0", "x_alt"),
       Link("hack", "x1", "1.0", "x"), Link("a", "y", "1.0", "y"),
       Link("y", "x1", "1.0", "x"), Link("a", "b", "*", "b"),
       Link("hack", "b", "1.0", "b") >>

\* The links of LinkPairs picked by the index set S.
PickLinks(S) == {LinkPairs[i] : i \in S}

\* BannedDepsConfig values.
BannedConfigs ==
    { <<>>,
      [n \in {"x"} |-> [message |-> "use z", type_ |-> "Always"]],
      [n \in {"x"} |-> [message |-> "use z", type_ |-> "Direct"]],
      [n \in {"x", "y"} |->
          IF n = "x" THEN [message |-> "use z", type_ |-> "Direct"]
                     ELSE [message |-> "no y", type_ |-> "Always"]] }

\* The project linters nexlint_lints::project exports.
AllProjectLinters == <<"banned-deps", "direct-dep-dups">>

\* project_linters of x/src/lint.rs
LintProjectLinters == <<"direct-dep-dups">>

\* package_linters of x/src/lint.rs
LintPackageLinters ==
    <<"crate-names-paths",
      "irrelevant-build-deps",
      "unpublished-packages-only-use-path-dependencies",
      "published-packages-dont-depend-on-unpublished-packages",
      "only-publish-to-crates-io">>

\* The package linters nexlint_lints::package exports.
AllPackageLinters ==
    <<"crate-names-paths",
      "crates-in-crates-directory",
      "crates-only-in-crates-directory",
      "enforced-attributes",
      "irrelevant-build-deps",
      "only-publish-to-crates-io",
      "published-packages-dont-depend-on-unpublished-packages",
      "unpublished-packages-only-use-path-dependencies">>

\* The context of a run over a workspace: the graph of its packages and links,
\* the name of its workspace-hack package, and no tracked file.
Context(packages, links, hack) ==
    [package_graph |-> build_graph(packages, links),
     workspace_hack_name |-> hack,
     tracked_files |-> <<>>]

\* A LintEngineConfig with project and package linters only, and the
\* configuration of these linters.
EngineConfig(project_linters, package_linters, fail_fast, banned, allow) ==
    [project_linters |-> project_linters, package_linters |-> package_linters,
     file_path_linters |-> <<>>, content_linters |-> <<>>,
     fail_fast |-> fail_fast, banned |-> banned, allow |-> allow,
     enforced |-> EnforcedAttributesConfig(NoAuthors, None),
     exceptions |-> {}, license_header |-> <<>>,
     root_toml |-> [every |-> TRUE, extensions |-> {}]]

\* Engines built from the exported project linters and the two package linters
\* that read the links, run over graphs that differ in their links.
InitGraphs ==
    \E S \in SUBSET (1..Len(LinkPairs)),
       hack \in {None, "hack"}, src \in Sources,
       ba \in ({[banned |-> b, allow |-> <<>>] : b \in BannedConfigs}
               \cup {[banned |-> <<>>, allow |-> <<"x">>]}) :
        /\ Cardinality(S) <= MaxLinks
        /\ \A i \in S : \/ LinkPairs[i].from \in {"a", "b", "hack"}
                        \/ \E k \in S : LinkPairs[k].to = LinkPairs[i].from
        /\ ctx = Context(Packages(<<"crates", "a">>, Registries(<<>>),
                                  Registries(<<CRATES_IO>>), Unrestricted, src),
                         PickLinks(S), hack)
        /\ config = EngineConfig(AllProjectLinters,
                                 <<"unpublished-packages-only-use-path-dependencies",
                                   "published-packages-dont-depend-on-unpublished-packages">>,
                                 FALSE, ba.banned, ba.allow)

\* Engines built from the publish and path linters, run over workspaces that
\* differ in package a's manifest.
InitManifests ==
    \E pathA \in Paths, pubA \in Publishes,
       pubB \in {Registries(<<>>), Registries(<<CRATES_IO>>)},
       pubX \in {Registries(<<>>), Unrestricted},
       reqB \in {None, "*", "1.0"}, reqX \in {None, "*", "1.0"},
       back \in BOOLEAN :
        /\ \/ pathA = <<"crates", "a">>
           \/ pubA \in {Registries(<<>>), Registries(<<CRATES_IO>>)}
        /\ ctx = Context(Packages(pathA, pubA, pubB, pubX,
                                  CHOOSE s \in Sources : s.y = RegistrySource),
                         (IF reqB = None THEN {} ELSE {Link("a", "b", reqB, "b")})
                         \cup (IF reqX = None THEN {} ELSE {Link("a", "x1", reqX, "x")})
                         \cup (IF back THEN {Link("b", "a", "*", "a")} ELSE {}),
                         "hack")
        /\ Len(ctx.package_graph.links) <= MaxLinks
        /\ config = EngineConfig(LintProjectLinters,
                                 <<"unpublished-packages-only-use-path-dependencies",
                                   "published-packages-dont-depend-on-unpublished-packages",
                                   "only-publish-to-crates-io",
                                   "crates-in-crates-directory",
                                   "crates-only-in-crates-directory">>,
                                 FALSE, <<>>, <<>>)

\* Names, paths and build targets of package a.
Namings ==
    {[name |-> n, path |-> p, targets |-> t] :
        n \in {"a", "a_u"},
        p \in {<<"crates", "a">>, <<"crates", "a_u">>},
        t \in {<<BuildTarget("a", "lib")>>, <<BuildTarget("t_x", "t_x")>>,
               <<BuildTarget("a", "lib"), BuildTarget("t_x", "main")>>}}

\* Build script and dependency of package a.
BuildDeps ==
    {[script |-> h, links |-> l] :
        h \in BOOLEAN,
        l \in {{}, {Link("a", "x1", "1.0", "x")}, {BuildLink("a", "x1", "1.0", "x")}}}

\* authors and license of package a, and the attributes the engine enforces.
Attributes ==
    {[authors |-> a, license |-> l, enforced |-> EnforcedAttributesConfig(ea, el)] :
        a \in {<<>>, <<"A">>}, l \in {None, "MIT"},
        ea \in {NoAuthors, SomeAuthors(<<"A">>), SomeAuthors(<<"A", "B">>)},
        el \in {None, "MIT"}}

\* Engines built from every exported package linter, run over workspaces that
\* differ in package a's name, path, build targets, build dependencies, authors
\* and license.
InitAttributes ==
    \E naming \in Namings, build \in BuildDeps, attributes \in Attributes :
        /\ \/ attributes = [authors |-> <<>>, license |-> None,
                            enforced |-> EnforcedAttributesConfig(NoAuthors, None)]
           \/ /\ naming = [name |-> "a", path |-> <<"crates", "a">>,
                           targets |-> <<BuildTarget("a", "lib")>>]
              /\ build = [script |-> FALSE, links |-> {}]
        /\ LET packages == Packages(naming.path, Registries(<<CRATES_IO>>),
                                    Registries(<<CRATES_IO>>), Unrestricted,
                                    CHOOSE s \in Sources : s.y = RegistrySource)
               a == [packages[1] EXCEPT !.name = naming.name,
                                        !.build_targets =
                                            IF build.script
                                            THEN with_build_script(naming.targets)
                                            ELSE naming.targets,
                                        !.authors = attributes.authors,
                                        !.license = attributes.license]
           IN  ctx = Context(<<a>> \o Tail(packages), build.links, "hack")
        /\ config = [EngineConfig(AllProjectLinters, AllPackageLinters, FALSE,
                                  <<>>, <<>>)
                     EXCEPT !.enforced = attributes.enforced]

\* The files a playground run reads: none, a text file, a file that is not
\* UTF-8.
PlaygroundFiles ==
    {<<>>, <<File(<<"e">>, Text(<<>>))>>, <<File(<<"c", ".", "x">>, NotUtf8)>>}

\* The engine of x/src/playground.rs, and engines built like it from playground
\* linters and exported linters.
InitEngines ==
    \E fail_fast \in BOOLEAN,
       project_linters \in {<<>>, <<"playground-project">>,
                            <<"playground-project", "banned-deps">>,
                            <<"direct-dep-dups", "playground-project">>},
       package_linters \in {<<>>, <<"playground-package">>,
                            <<"only-publish-to-crates-io", "playground-package">>},
       file_linters \in BOOLEAN,
       files \in PlaygroundFiles,
       banned \in BannedConfigs :
        /\ banned # <<>> => "banned-deps" \in Range(project_linters)
        /\ file_linters => /\ project_linters = <<"playground-project">>
                           /\ package_linters = <<"playground-package">>
        /\ ~file_linters => files = <<>>
        /\ ctx = [Context(Packages(<<"crates", "a">>, Unrestricted,
                                   Registries(<<CRATES_IO>>), Unrestricted,
                                   CHOOSE s \in Sources : s.y = RegistrySource),
                          {Link("a", "x1", "1.0", "x"), Link("b", "x2", "1.0", "x")},
                          "hack")
                  EXCEPT !.tracked_files = files]
        /\ config = [EngineConfig(project_linters, package_linters, fail_fast,
                                  banned, <<>>)
                     EXCEPT !.file_path_linters =
                                IF file_linters THEN <<"playground-file-path">> ELSE <<>>,
                            !.content_linters =
                                IF file_linters THEN <<"playground-content">> ELSE <<>>]
        /\ \E cm \in {"graph-1", "error"}, ls \in {"files-1"} \cup LsFilesFailures :
              /\ cm = "error" => ls = "files-1"
              /\ ls # "files-1" => file_linters /\ files = <<>>
              /\ os = Os(cm, ls)

\* LICENSE_HEADER of x/src/lint.rs, with L for the text of its one line.
LICENSE_HEADER == <<"L", LF>>

\* file_path_linters and content_linters of x/src/lint.rs
LintFilePathLinters == <<"allowed-paths">>
LintContentLinters ==
    <<"license-header", "root-toml", "eof-newline", "trailing-whitespace">>

\* What the pre_run hook of RootToml may let through: every path, or the
\* paths with one extension and no others.
RootTomls ==
    { [every |-> TRUE, extensions |-> {}],
      [every |-> FALSE, extensions |-> {<<<<"r", "s">>>>}] }

\* The files a repository may track.
Files ==
    { File(<<"a", ".", "r", "s">>, Text(<<"/", "/", " ", "L", LF, "c", LF>>)),
      File(<<"a", ".", "r", "s">>, Text(<<"c", LF>>)),
      File(<<"a", ".", "r", "s">>, NotUtf8),
      File(<<"b", ".", "s", "h">>, Text(<<"#", "!", LF, "#", " ", "L", LF, "c">>)),
      File(<<"c", ".", "x">>, NotUtf8),
      File(<<"c", ".", "x">>, Text(<<"c", " ", LF, LF>>)),
      File(<<"d", " ", ".", "r", "s">>,
           Text(<<LF, "/", "/", " ", "/", "/", " ", "L", LF>>)),
      File(<<"e">>, Text(<<>>)) }

\* The lists of at most n files.
RECURSIVE FileLists(_)
FileLists(n) ==
    IF n = 0 THEN {<<>>}
    ELSE LET shorter == FileLists(n - 1)
         IN  shorter \cup
             {Append(fs, f) : fs \in {l \in shorter : Len(l) = n - 1},
                              f \in Files}

\* The engine of x/src/lint.rs, with fail_fast as the command line gives it, run
\* over a workspace that differs in its tracked files; and the same engine with
\* whitespace exceptions handed to build_exceptions.  git ls-files prints the
\* path of a file in a merge conflict once per index stage, so a list may hold
\* a file more than once; a path has one content.
InitFiles ==
    \E files \in FileLists(MaxFiles), fail_fast \in BOOLEAN,
       exceptions \in {{}, {<<".", "x">>}},
       root_toml \in RootTomls,
       git_ls_files \in {"files-1"} \cup LsFilesFailures :
        /\ \A i, j \in 1..Len(files) :
              files[i].path = files[j].path => files[i] = files[j]
        /\ git_ls_files # "files-1" => files = <<>> /\ root_toml.every
        /\ ctx = [Context(Packages(<<"crates", "a">>, Registries(<<CRATES_IO>>),
                                   Registries(<<CRATES_IO>>), Unrestricted,
                                   CHOOSE s \in Sources : s.y = RegistrySource),
                          {}, "hack")
                  EXCEPT !.tracked_files = files]
        /\ config = [EngineConfig(LintProjectLinters, LintPackageLinters, fail_fast,
                                  <<>>, <<>>)
                     EXCEPT !.file_path_linters = LintFilePathLinters,
                            !.content_linters = LintContentLinters,
                            !.exceptions = exceptions,
                            !.license_header = LICENSE_HEADER,
                            !.root_toml = root_toml]
        /\ os = Os("graph-1", git_ls_files)

\* The engine of x/src/lint.rs in a process that is not in the root of the
\* repository, or in no repository, or that cannot run git or name its
\* working directory.
InitOutside ==
    \E cwd \in CurrentDirs, top \in RevParseOutcomes,
       env_current_dir \in {"ok", "io-error", "non-utf8"} :
        /\ env_current_dir # "ok" => cwd = <<"/", "w", "/", "r">> /\ top = RevParseRoot
        /\ env_current_dir = "ok" => <<cwd, top>> # <<<<"/", "w", "/", "r">>, RevParseRoot>>
        /\ os = [Os("graph-1", "files-1") EXCEPT !.current_dir = cwd,
                                                 !.git_rev_parse = top,
                                                 !.env_current_dir = env_current_dir]
        /\ ctx = Context(Packages(<<"crates", "a">>, Registries(<<CRATES_IO>>),
                                  Registries(<<CRATES_IO>>), Unrestricted,
                                  CHOOSE s \in Sources : s.y = RegistrySource),
                         {}, "hack")
        /\ config = [EngineConfig(LintProjectLinters, LintPackageLinters, FALSE,
                                  <<>>, <<>>)
                     EXCEPT !.file_path_linters = LintFilePathLinters,
                            !.content_linters = LintContentLinters,
                            !.license_header = LICENSE_HEADER]

\* No engine run has started.
EngineIdle ==
    /\ result = NoResult
    /\ printed = <<>>
    /\ exit = None
    /\ status = "Idle"
    /\ pos = 1
    /\ messages = <<>>
    /\ skipped = <<>>
    /\ origin = <<>>
    /\ last = [linter |-> None, variant |-> None, target |-> KindProject,
               package |-> None,
               out |-> <<>>, file |-> NoFile, pre_run |-> Executed,
               run_invoked |-> FALSE, run_status |-> Executed]

Init ==
    /\ \/ InitGraphs /\ os = Os("graph-1", "files-1")
       \/ InitManifests /\ os = Os("graph-1", "files-1")
       \/ InitAttributes /\ os = Os("graph-1", "files-1")
       \/ InitEngines
       \/ InitFiles
       \/ InitOutside
    /\ EngineIdle
    /\ ContextIdle

Spec == Init /\ [][Next]_vars

(***************************************************************************)
(* The rules of nexlint-lints/src/guppy.rs that read the dependency links, *)
(* each applied once to a context.  DirectDuplicateGitDependencies is      *)
(* applied in this way only: nexlint-lints does not export it, so that no  *)
(* engine holds it.                                                        *)
(***************************************************************************)
\* ProjectLinter::run is called on a project context.
CallProjectLinter ==
    /\ status = "Idle"
    /\ last.linter = None
    /\ \E linter \in {"banned-deps", "direct-dep-dups",
                       "direct-duplicate-git-dependencies"} :
          \E out \in ProjectLinter_run(linter, ctx, config) :
             last' = [last EXCEPT !.linter = linter, !.variant = "project",
                                  !.out = out, !.run_invoked = TRUE]
    /\ ContextRead(TRUE, FALSE)
    /\ UNCHANGED <<ctx, config, status, pos, messages, skipped, origin,
                   result, printed, exit>>

\* PackageLinter::run is called on the package context of a workspace member.
CallPackageLinter ==
    /\ status = "Idle"
    /\ last.linter = None
    /\ \E linter \in Range(config.package_linters),
          package \in Range(PackageTargets(ctx.package_graph)) :
          \E out \in PackageLinter_run(linter, ctx, config, package) :
             last' = [last EXCEPT !.linter = linter, !.variant = "package",
                                  !.target = PackageContext_kind(package),
                                  !.package = package.id,
                                  !.out = out, !.run_invoked = TRUE]
    /\ ContextRead(TRUE, FALSE)
    /\ UNCHANGED <<ctx, config, status, pos, messages, skipped, origin,
                   result, printed, exit>>

NextRules ==
    \/ CallProjectLinter
    \/ CallPackageLinter

\* A context built by new() in the root of the repository, on which nothing
\* was called.
ContextBuilt ==
    /\ nexlint_context = NexLintContext_new(os.current_dir, os.git_rev_parse).context
    /\ returned = NothingReturned
    /\ commands = [git_ls_files |-> 0, cargo_metadata |-> 0]
    /\ SharedIdle

InitRules ==
    /\ InitGraphs
    /\ os = Os("graph-1", "files-1")
    /\ EngineIdle
    /\ ContextBuilt

SpecRules == InitRules /\ [][NextRules]_vars

(***************************************************************************)
(* Calls on a NexLintContext, in any order, while the repository changes   *)
(* under it.                                                               *)
(***************************************************************************)
\* NexLintContext::new, for the working directory of the process.
New ==
    /\ nexlint_context = NoContext
    /\ returned.seq = 0
    /\ LET r == NexLintContext_new(os.current_dir, os.git_rev_parse)
       IN  /\ nexlint_context' = r.context
           /\ returned' = [seq |-> 1, call |-> "new", ok |-> r.ok,
                           value |-> None, error |-> r.error, would |-> None]
    /\ UNCHANGED <<os, commands>>
    /\ UNCHANGED evars
    /\ UNCHANGED svars

\* GitCli::tracked_files
TrackedFiles ==
    /\ nexlint_context # NoContext
    /\ returned.error # Panic.error
    /\ returned.seq <= MaxCalls
    /\ LET r == get_or_try_init(nexlint_context.tracked_files,
                                tracked_files_init(os.git_ls_files))
       IN  /\ nexlint_context' = [nexlint_context EXCEPT !.tracked_files = r.cell]
           /\ returned' = [seq |-> returned.seq + 1, call |-> "tracked_files",
                           ok |-> r.ok, value |-> r.value, error |-> r.error,
                           would |-> os.git_ls_files]
           /\ commands' = [commands EXCEPT !.git_ls_files = @ + r.ran]
    /\ UNCHANGED os
    /\ UNCHANGED evars
    /\ UNCHANGED svars

\* NexLintContext::package_graph
PackageGraph ==
    /\ nexlint_context # NoContext
    /\ returned.error # Panic.error
    /\ returned.seq <= MaxCalls
    /\ LET r == get_or_try_init(nexlint_context.package_graph,
                                package_graph_init(os.cargo_metadata))
       IN  /\ nexlint_context' = [nexlint_context EXCEPT !.package_graph = r.cell]
           /\ returned' = [seq |-> returned.seq + 1, call |-> "package_graph",
                           ok |-> r.ok, value |-> r.value, error |-> r.error,
                           would |-> os.cargo_metadata]
           /\ commands' = [commands EXCEPT !.cargo_metadata = @ + r.ran]
    /\ UNCHANGED os
    /\ UNCHANGED evars
    /\ UNCHANGED svars

\* The names of the workspace members of the graphs cargo metadata can give.
workspace_names(graph) ==
    IF graph = "graph-1" THEN {"a", "b", "hack"} ELSE {"a"}

\* Iterator::partition over names, by membership of the workspace.
partition(names, workspace) ==
    [known |-> SelectSeqF(names, [n \in Range(names) |-> n \in workspace]),
     unknown |-> SelectSeqF(names, [n \in Range(names) |-> n \notin workspace])]

\* The lists of names partition_workspace_names is called with.
NameLists == {<<>>, <<"a", "zzz">>, <<"zzz", "b", "a">>}

\* NexLintContext::partition_workspace_names: the package graph is had as
\* package_graph() gives it, its error handed on, and the names are split
\* into those of workspace members and the others.
PartitionWorkspaceNames ==
    /\ nexlint_context # NoContext
    /\ returned.error # Panic.error
    /\ returned.seq <= MaxCalls
    /\ \E names \in NameLists :
          LET r == get_or_try_init(nexlint_context.package_graph,
                                   package_graph_init(os.cargo_metadata))
          IN  /\ nexlint_context' = [nexlint_context EXCEPT !.package_graph = r.cell]
              /\ returned' = [seq |-> returned.seq + 1,
                              call |-> "partition_workspace_names",
                              ok |-> r.ok,
                              value |-> IF r.ok
                                        THEN partition(names, workspace_names(r.value))
                                        ELSE partition(<<>>, {}),
                              error |-> r.error, would |-> os.cargo_metadata]
              /\ commands' = [commands EXCEPT !.cargo_metadata = @ + r.ran]
    /\ UNCHANGED os
    /\ UNCHANGED evars
    /\ UNCHANGED svars

\* Between two calls the repository changes: the commands would now give
\* something else.
RepositoryChanges ==
    /\ nexlint_context # NoContext
    /\ returned.error # Panic.error
    /\ \E ls \in LsFilesOutcomes, cm \in CargoMetadataOutcomes :
          /\ <<ls, cm>> # <<os.git_ls_files, os.cargo_metadata>>
          /\ os' = [os EXCEPT !.git_ls_files = ls, !.cargo_metadata = cm]
    /\ UNCHANGED <<nexlint_context, returned, commands>>
    /\ UNCHANGED evars
    /\ UNCHANGED svars

\* GitCli::merge_base, in a build with or without overflow checks.
MergeBase ==
    /\ nexlint_context # NoContext
    /\ returned.seq <= MaxCalls
    /\ returned.error # Panic.error
    /\ \E output \in MergeBaseOutputs, overflow_checks \in BOOLEAN :
          LET r == merge_base(output, overflow_checks)
          IN  returned' = [seq |-> returned.seq + 1, call |-> "merge_base",
                           ok |-> r.type = "Ok", value |-> r.value,
                           error |-> r.error, would |-> output]
    /\ UNCHANGED <<os, nexlint_context, commands>>
    /\ UNCHANGED evars
    /\ UNCHANGED svars

NextContext ==
    \/ New
    \/ TrackedFiles
    \/ PackageGraph
    \/ PartitionWorkspaceNames
    \/ RepositoryChanges
    \/ MergeBase

\* The process starts in some directory, inside or outside of the repository.
InitContext ==
    /\ \E cwd \in CurrentDirs, top \in RevParseOutcomes,
          ls \in LsFilesOutcomes, cm \in CargoMetadataOutcomes :
          os = [Os(cm, ls) EXCEPT !.current_dir = cwd, !.git_rev_parse = top]
    /\ nexlint_context = NoContext
    /\ returned = NothingReturned
    /\ commands = [git_ls_files |-> 0, cargo_metadata |-> 0]
    /\ SharedIdle
    /\ ctx = Context(<<>>, {}, None)
    /\ config = EngineConfig(<<>>, <<>>, FALSE, <<>>, <<>>)
    /\ EngineIdle

SpecContext == InitContext /\ [][NextContext]_vars

(***************************************************************************)
(* Threads calling tracked_files() or package_graph() on one context.      *)
(***************************************************************************)
\* What the closure of the accessor gives for an outcome of its command.
ClosureOf(cache, outcome) ==
    IF cache = "tracked_files" THEN tracked_files_init(outcome)
    ELSE package_graph_init(outcome)

\* The outcomes the command behind a cache can have.
OutcomesOf(cache) ==
    IF cache = "tracked_files" THEN LsFilesOutcomes ELSE CargoMetadataOutcomes

\* get_or_try_init, the fast path: a thread calls the accessor and reads the
\* cell with get().
Call(t) ==
    /\ callers[t].pc = "idle"
    /\ callers' = [callers EXCEPT ![t] =
          IF once.state = "Complete"
          THEN [@ EXCEPT !.pc = "returned", !.ok = TRUE, !.value = once.slot[1]]
          ELSE [@ EXCEPT !.pc = "initialize"]]
    /\ UNCHANGED <<once, initialised>>
    /\ UNCHANGED <<os, nexlint_context, returned, commands>>
    /\ UNCHANGED evars

\* The thread enters initialize and looks at the state of the cell.
Initialize(t) ==
    /\ callers[t].pc = "initialize"
    /\ LET todo == initialize_or_wait(once.state)
       IN  /\ callers' = [callers EXCEPT ![t] =
                 CASE todo = "return" ->
                        [@ EXCEPT !.pc = "returned", !.ok = TRUE,
                                  !.value = once.slot[1]]
                   [] todo = "init" -> [@ EXCEPT !.pc = "closure"]
                   [] todo = "wait" -> [@ EXCEPT !.pc = "parked", !.waited = TRUE]]
           /\ once' = IF todo = "init" THEN [once EXCEPT !.state = "Running"]
                      ELSE once
    /\ UNCHANGED initialised
    /\ UNCHANGED <<os, nexlint_context, returned, commands>>
    /\ UNCHANGED evars

\* A waiting thread is woken when the initialiser it waited for has ended.
Unpark(t) ==
    /\ callers[t].pc = "parked"
    /\ once.state # "Running"
    /\ callers' = [callers EXCEPT ![t].pc = "initialize"]
    /\ UNCHANGED <<once, initialised>>
    /\ UNCHANGED <<os, nexlint_context, returned, commands>>
    /\ UNCHANGED evars

\* The thread that took the cell enters its closure, which starts the external
\* command (Command::output, MetadataCommand::build_graph) and waits for it:
\* the command is run once more, on the repository as it is then, and the
\* other threads go on while it runs.
SpawnCommand(t) ==
    /\ callers[t].pc = "closure"
    /\ \E outcome \in OutcomesOf(once.cache) :
          /\ callers' = [callers EXCEPT ![t] =
                [@ EXCEPT !.pc = "command", !.output = outcome]]
          /\ IF once.cache = "tracked_files"
             THEN /\ os' = [os EXCEPT !.git_ls_files = outcome]
                  /\ commands' = [commands EXCEPT !.git_ls_files = @ + 1]
             ELSE /\ os' = [os EXCEPT !.cargo_metadata = outcome]
                  /\ commands' = [commands EXCEPT !.cargo_metadata = @ + 1]
    /\ UNCHANGED <<once, initialised>>
    /\ UNCHANGED <<nexlint_context, returned>>
    /\ UNCHANGED evars

\* The command has ended and the closure with it: its result is what the
\* closure makes of the command's output, and a value is written to the slot.
RunClosure(t) ==
    /\ callers[t].pc = "command"
    /\ LET r == ClosureOf(once.cache, callers[t].output)
       IN  /\ callers' = [callers EXCEPT ![t] =
                 [@ EXCEPT !.pc = "guard", !.ok = r.ok, !.value = r.value,
                           !.error = r.error]]
           /\ once' = IF r.ok THEN [once EXCEPT !.slot = <<r.value>>] ELSE once
    /\ UNCHANGED initialised
    /\ UNCHANGED <<os, nexlint_context, returned, commands>>
    /\ UNCHANGED evars

\* The initialiser ends: the cell becomes complete if the closure succeeded
\* and incomplete again if it failed, and the thread returns.
DropGuard(t) ==
    /\ callers[t].pc = "guard"
    /\ once' = [once EXCEPT !.state = IF callers[t].ok THEN "Complete"
                                      ELSE "Incomplete"]
    /\ initialised' = initialised + (IF callers[t].ok THEN 1 ELSE 0)
    /\ callers' = [callers EXCEPT ![t].pc = "returned"]
    /\ UNCHANGED <<os, nexlint_context, returned, commands>>
    /\ UNCHANGED evars

NextShared ==
    \E t \in Threads :
        \/ Call(t)
        \/ Initialize(t)
        \/ Unpark(t)
        \/ SpawnCommand(t)
        \/ RunClosure(t)
        \/ DropGuard(t)

\* A context with empty caches is shared by the threads.
InitShared ==
    /\ \E cache \in {"tracked_files", "package_graph"} : once = EmptyCell(cache)
    /\ callers = [t \in Threads |-> NotCalled]
    /\ initialised = 0
    /\ os = Os("graph-1", "files-1")
    /\ nexlint_context = NoContext
    /\ returned = NothingReturned
    /\ commands = [git_ls_files |-> 0, cargo_metadata |-> 0]
    /\ ctx = Context(<<>>, {}, None)
    /\ config = EngineConfig(<<>>, <<>>, FALSE, <<>>, <<>>)
    /\ EngineIdle

SpecShared == InitShared /\ [][NextShared]_vars

(***************************************************************************)
(* Properties.                                                             *)
(***************************************************************************)
\* The invocation that wrote messages[i].
WrittenBy(i) == Invocations(ctx, config)[origin[i]]

\* The number of entries of a formatter's output that satisfy a test.
Count(out, test(_)) == Cardinality({i \in 1..Len(out) : test(out[i])})

\* C1: with fail_fast set, the run stops at the boundary of the first rule
\* invocation that wrote an error-level message: that step ends the run as
\* FailedFast, no invocation follows it and the messages stay as accumulated;
\* an invocation that wrote no error-level message (none, or warnings only)
\* never stops the run, and without fail_fast nothing does.
C1_FailFastStopsAtRuleBoundary ==
    [][ /\ (status = "FailedFast" =>
                /\ status' = "FailedFast"
                /\ pos' = pos
                /\ messages' = messages
                /\ last' = last)
        /\ (pos' # pos =>
                /\ pos' = pos + 1
                /\ messages' = messages \o last'.out
                /\ status' = IF config.fail_fast /\ HasError(last'.out)
                             THEN "FailedFast" ELSE "Running") ]_vars

\* C1 witness: a fail-fast run has stopped with invocations left to make, after
\* an earlier invocation had written a warning without stopping it.
C1_Witness ==
    /\ status = "FailedFast"
    /\ pos <= Len(Invocations(ctx, config))
    /\ \E i \in 1..Len(messages) :
          /\ messages[i].level = "warning"
          /\ origin[i] < pos - 1

\* C2: with fail_fast set, if the first-evaluated target produced an error-level
\* message, the results hold no message produced for a later-evaluated target.
C2_NoMessagesFromLaterTargets ==
    (/\ config.fail_fast
     /\ \E i \in 1..Len(messages) :
           /\ messages[i].level = "error"
           /\ WrittenBy(i).target = Invocations(ctx, config)[1].target)
    => \A j \in 1..Len(messages) :
           WrittenBy(j).target = Invocations(ctx, config)[1].target

\* C2 witness: a fail-fast run whose first target produced an error has stopped
\* while later targets were still to be evaluated.
C2_Witness ==
    /\ config.fail_fast
    /\ status = "FailedFast"
    /\ \E i \in 1..Len(messages) :
          /\ messages[i].level = "error"
          /\ WrittenBy(i).target = Invocations(ctx, config)[1].target
    /\ \E k \in pos..Len(Invocations(ctx, config)) :
          Invocations(ctx, config)[k].target # Invocations(ctx, config)[1].target

\* The entries of the banned mapping with a given policy.
BannedWith(type_) == {n \in DOMAIN config.banned : config.banned[n].type_ = type_}

\* C3: BannedDeps, Always policy: for each banned name with policy Always the
\* rule writes one project-level error with the configured message per package
\* of the graph with that name, whatever depends on it, and no package-level
\* message about it.
C3_BannedAlways ==
    last.linter = "banned-deps" =>
        \A n \in BannedWith("Always") :
            /\ Count(last.out, LAMBDA m :
                        /\ m.kind = KindProject
                        /\ m.level = "error"
                        /\ m.body.subject = n
                        /\ m.body.note = config.banned[n].message)
               = Cardinality({p \in Range(ctx.package_graph.packages) : p.name = n})
            /\ Count(last.out, LAMBDA m : m.body.subject = n /\ m.kind # KindProject) = 0
            /\ Count(last.out, LAMBDA m : m.body.subject = n)
               = Cardinality({p \in Range(ctx.package_graph.packages) : p.name = n})

\* C3 witness: BannedDeps ran with an Always-banned package that has several
\* dependents, one of them outside the workspace, and wrote one error.
C3_Witness ==
    /\ last.linter = "banned-deps"
    /\ "x" \in BannedWith("Always")
    /\ Len(reverse_direct_links(ctx.package_graph, "x1")) >= 2
    /\ \E l \in Range(ctx.package_graph.links) : l.to = "x1" /\ l.from = "y"
    /\ Count(last.out, LAMBDA m : m.body.subject = "x") = 1

\* C3 witness, two packages: BannedDeps ran with two packages of an
\* Always-banned name in the graph, one of them used by the workspace-hack
\* package only, and wrote two errors.
C3_WitnessTwo ==
    /\ last.linter = "banned-deps"
    /\ "x" \in BannedWith("Always")
    /\ {l.from : l \in Range(reverse_direct_links(ctx.package_graph, "x1"))} = {"hack"}
    /\ Len(reverse_direct_links(ctx.package_graph, "x2")) = 2
    /\ Count(last.out, LAMBDA m : m.body.subject = "x") = 2

\* The links of the graph that point to a package named n and whose source
\* package satisfies counts.
LinksTo(n, counts(_)) ==
    {l \in Range(ctx.package_graph.links) :
        /\ metadata(ctx.package_graph, l.to).name = n
        /\ counts(metadata(ctx.package_graph, l.from))}

\* What C4 asks of a BannedDeps output, for the dependents that satisfy counts:
\* one package-level error per dependent link, tagged with the dependent's
\* name and path, and no project-level error.
DirectBanReported(out, counts(_)) ==
    \A n \in BannedWith("Direct") :
        /\ Count(out, LAMBDA m : m.body.subject = n /\ m.kind = KindProject) = 0
        /\ Count(out, LAMBDA m : m.body.subject = n /\ m.level = "error"
                                   /\ m.kind.type = "package")
           = Cardinality(LinksTo(n, counts))
        /\ \A d \in Range(ctx.package_graph.packages) :
              Count(out, LAMBDA m : /\ m.body.subject = n
                                    /\ m.body.note = config.banned[n].message
                                    /\ m.level = "error"
                                    /\ m.kind = KindPackage(d.name, d.workspace_path))
              = Cardinality(LinksTo(n, LAMBDA from : from.id = d.id /\ counts(from)))

\* C4 as stated: BannedDeps, Direct policy: a banned package with K reverse
\* direct dependents, the workspace-hack package not counted, gets exactly K
\* package-level errors, one per dependent, and no project-level error.
C4_Original ==
    last.linter = "banned-deps" =>
        DirectBanReported(last.out,
                          LAMBDA from : ~is_workspace_hack(ctx, from.name))

\* C4 as amended: BannedDeps, Direct policy: a banned package with K reverse
\* direct dependents that are workspace members, the workspace-hack package not
\* counted, gets exactly K package-level errors, one per such dependent and
\* tagged with its name and path, and no project-level error.
C4_BannedDirect ==
    last.linter = "banned-deps" =>
        DirectBanReported(last.out,
                          LAMBDA from : /\ from.in_workspace
                                        /\ ~is_workspace_hack(ctx, from.name))

\* C4 witness: BannedDeps ran on a Direct-banned package that a workspace member
\* and a third-party package both depend on, and wrote one error.
C4_Witness ==
    /\ last.linter = "banned-deps"
    /\ "x" \in BannedWith("Direct")
    /\ {l.from : l \in LinksTo("x", LAMBDA from : TRUE)} = {"a", "y"}
    /\ Count(last.out, LAMBDA m : m.body.subject = "x") = 1

\* C4 witness, workspace-hack: BannedDeps ran on a Direct-banned package that two
\* workspace members and the workspace-hack package depend on, and wrote two
\* errors.
C4_WitnessHack ==
    /\ last.linter = "banned-deps"
    /\ "x" \in BannedWith("Direct")
    /\ ctx.workspace_hack_name = "hack"
    /\ {l.from : l \in LinksTo("x", LAMBDA from : TRUE)} = {"a", "b", "hack"}
    /\ Count(last.out, LAMBDA m : m.body.subject = "x") = 2

\* The direct third-party dependency links of the workspace, as 4.3 takes them
\* for every rule of the set: from a workspace member that is not the
\* workspace-hack package to a package outside the workspace.
DirectThirdPartyLinks ==
    {l \in Range(ctx.package_graph.links) :
        /\ metadata(ctx.package_graph, l.from).in_workspace
        /\ ~is_workspace_hack(ctx, metadata(ctx.package_graph, l.from).name)
        /\ ~metadata(ctx.package_graph, l.to).in_workspace}

ThirdPartyNames ==
    {p.name : p \in {q \in Range(ctx.package_graph.packages) : ~q.in_workspace}}

\* The links through which workspace members directly depend on version v of n.
DirectUses(n, v) ==
    {l \in DirectThirdPartyLinks :
        /\ metadata(ctx.package_graph, l.to).name = n
        /\ metadata(ctx.package_graph, l.to).version = v}

\* The versions of n that workspace members directly depend on.
DirectVersions(n) ==
    {metadata(ctx.package_graph, l.to).version :
        l \in {k \in DirectThirdPartyLinks : metadata(ctx.package_graph, k.to).name = n}}

\* C5: DirectDepDups: for every third-party name outside the allow-list the rule
\* writes exactly one project-level error if workspace members directly depend
\* on more than one version of it, and the error lists every such version with
\* every workspace member that depends on it; it writes nothing about a name
\* with a single directly-used version, nor about a name of the allow-list.
C5_DirectDepDups ==
    last.linter = "direct-dep-dups" =>
        /\ \A i \in 1..Len(last.out) : last.out[i].body.subject \in ThirdPartyNames
        /\ \A n \in ThirdPartyNames :
              LET about == SelectSeqF(last.out,
                              [m \in Range(last.out) |-> m.body.subject = n])
              IN  IF n \notin Range(config.allow) /\ Cardinality(DirectVersions(n)) > 1
                  THEN /\ Len(about) = 1
                       /\ about[1].kind = KindProject
                       /\ about[1].level = "error"
                       /\ Len(about[1].body.versions) = Cardinality(DirectVersions(n))
                       /\ {e.version : e \in Range(about[1].body.versions)}
                          = DirectVersions(n)
                       /\ \A e \in Range(about[1].body.versions) :
                             /\ Range(e.packages)
                                = {metadata(ctx.package_graph, l.from).name :
                                      l \in DirectUses(n, e.version)}
                             /\ Len(e.packages) = Cardinality(DirectUses(n, e.version))
                  ELSE Len(about) = 0

\* C5 witness: DirectDepDups reported a name whose two versions are used by
\* different workspace members.
C5_Witness ==
    /\ last.linter = "direct-dep-dups"
    /\ config.allow = <<>>
    /\ DirectVersions("x") = {1, 2}
    /\ {metadata(ctx.package_graph, l.from).name : l \in DirectUses("x", 1)} = {"a"}
    /\ {metadata(ctx.package_graph, l.from).name : l \in DirectUses("x", 2)} = {"b"}
    /\ Len(last.out) = 1

\* C5 witness, the silent cases: DirectDepDups wrote nothing about a name whose
\* versions spread but that is in the allow-list.
C5_WitnessAllowed ==
    /\ last.linter = "direct-dep-dups"
    /\ "x" \in Range(config.allow)
    /\ DirectVersions("x") = {1, 2}
    /\ last.out = <<>>

\* The direct links to packages that come from a git repository.
DirectGitLinks ==
    {l \in DirectThirdPartyLinks : metadata(ctx.package_graph, l.to).source.kind = "git"}

\* The links through which workspace members depend on repository r at hash h.
GitUses(r, h) ==
    {l \in DirectGitLinks :
        /\ metadata(ctx.package_graph, l.to).source.repository = r
        /\ metadata(ctx.package_graph, l.to).source.resolved = h}

\* The hashes repository r is resolved to by direct dependencies.
GitHashes(r) ==
    {metadata(ctx.package_graph, l.to).source.resolved :
        l \in {k \in DirectGitLinks :
                  metadata(ctx.package_graph, k.to).source.repository = r}}

GitRepositories ==
    {p.source.repository :
        p \in {q \in Range(ctx.package_graph.packages) : q.source.kind = "git"}}

\* C6: DuplicateGitDependencies: over the direct links from a workspace member
\* to a non-member that comes from git, the rule writes exactly one
\* project-level error per repository resolved to more than one hash, listing
\* every hash and every (dependent, dependency) pair under it; a repository
\* resolved to one hash gets none, and non-git dependencies contribute nothing.
C6_DuplicateGitDependencies ==
    last.linter = "direct-duplicate-git-dependencies" =>
        /\ \A i \in 1..Len(last.out) : last.out[i].body.subject \in GitRepositories
        /\ \A r \in GitRepositories :
              LET about == SelectSeqF(last.out,
                              [m \in Range(last.out) |-> m.body.subject = r])
              IN  IF Cardinality(GitHashes(r)) > 1
                  THEN /\ Len(about) = 1
                       /\ about[1].kind = KindProject
                       /\ about[1].level = "error"
                       /\ Len(about[1].body.hashes) = Cardinality(GitHashes(r))
                       /\ {e.resolved : e \in Range(about[1].body.hashes)} = GitHashes(r)
                       /\ \A e \in Range(about[1].body.hashes) :
                             /\ Range(e.packages)
                                = {<<metadata(ctx.package_graph, l.from).name,
                                     metadata(ctx.package_graph, l.to).name>> :
                                      l \in GitUses(r, e.resolved)}
                             /\ Len(e.packages) = Cardinality(GitUses(r, e.resolved))
                  ELSE Len(about) = 0

\* C6 witness: the rule reported a repository that two workspace members
\* resolve to two hashes, next to a direct dependency that is not from git.
C6_Witness ==
    /\ last.linter = "direct-duplicate-git-dependencies"
    /\ \E r \in GitRepositories :
          /\ Cardinality(GitHashes(r)) = 2
          /\ Cardinality({l.from : l \in {k \in DirectGitLinks :
                 metadata(ctx.package_graph, k.to).source.repository = r}}) = 2
    /\ \E l \in DirectThirdPartyLinks :
          metadata(ctx.package_graph, l.to).source.kind = "registry"
    /\ Len(last.out) = 1

\* C6 witness, the silent case: two workspace members resolve one repository to
\* the same hash and the rule wrote nothing.
C6_WitnessSameHash ==
    /\ last.linter = "direct-duplicate-git-dependencies"
    /\ \E r \in GitRepositories :
          /\ Cardinality(GitHashes(r)) = 1
          /\ Cardinality({l.from : l \in {k \in DirectGitLinks :
                 metadata(ctx.package_graph, k.to).source.repository = r}}) = 2
    /\ last.out = <<>>

\* The package the last invocation ran against.
LastPackage == metadata(ctx.package_graph, last.package)

\* C7: UnpublishedPackagesOnlyUsePathDependencies: for a package with publish
\* policy never the rule writes one error per direct link to a workspace member
\* whose requirement is not the unconstrained one, and none for any other link
\* (none for a link that leaves the workspace); for any other package nothing.
C7_UnpublishedOnlyWorkspaceLinks ==
    last.linter = "unpublished-packages-only-use-path-dependencies" =>
        IF is_never(LastPackage.publish)
        THEN LET links == Range(direct_links(ctx.package_graph, last.package))
                 offending == {l \in links :
                                 /\ metadata(ctx.package_graph, l.to).in_workspace
                                 /\ l.version_req # no_version_req}
             IN  /\ Len(last.out) = Cardinality(offending)
                 /\ \A l \in links :
                       Count(last.out, LAMBDA m : /\ m.body.subject = l.dep_name
                                                  /\ m.body.note = l.version_req
                                                  /\ m.level = "error"
                                                  /\ m.kind = last.target)
                       = IF l \in offending THEN 1 ELSE 0
        ELSE last.out = <<>>

\* C8: PublishedPackagesDontDependOnUnpublishedPackages: for a package whose
\* publish policy is not never the rule writes exactly one error per direct
\* dependency whose own policy is never, naming it, and none for any other
\* dependency; for a package whose policy is never it writes nothing.
C8_PublishedDontDependOnUnpublished ==
    last.linter = "published-packages-dont-depend-on-unpublished-packages" =>
        IF ~is_never(LastPackage.publish)
        THEN LET links == Range(direct_links(ctx.package_graph, last.package))
                 unpublished == {l \in links :
                                   is_never(metadata(ctx.package_graph, l.to).publish)}
             IN  /\ Len(last.out) = Cardinality(unpublished)
                 /\ \A l \in links :
                       Count(last.out, LAMBDA m : /\ m.body.subject = l.dep_name
                                                  /\ m.level = "error"
                                                  /\ m.kind = last.target)
                       = IF l \in unpublished THEN 1 ELSE 0
        ELSE last.out = <<>>

\* C8 witness: the rule ran on a published package that depends on an
\* unpublished one and on a published one, and wrote one error.
C8_Witness ==
    /\ last.linter = "published-packages-dont-depend-on-unpublished-packages"
    /\ ~is_never(LastPackage.publish)
    /\ \E l1, l2 \in Range(direct_links(ctx.package_graph, last.package)) :
          /\ is_never(metadata(ctx.package_graph, l1.to).publish)
          /\ ~is_never(metadata(ctx.package_graph, l2.to).publish)
    /\ Len(last.out) = 1

\* C8 witness, the silent case: an unpublished package that depends on an
\* unpublished package, and the rule wrote nothing.
C8_WitnessUnpublished ==
    /\ last.linter = "published-packages-dont-depend-on-unpublished-packages"
    /\ is_never(LastPackage.publish)
    /\ \E l \in Range(direct_links(ctx.package_graph, last.package)) :
          is_never(metadata(ctx.package_graph, l.to).publish)
    /\ last.out = <<>>

\* C9: OnlyPublishToCratesIo: no error if the package's registry set is empty or
\* is exactly the default public registry, exactly one error in every other
\* case (unrestricted, several registries, one other registry).
C9_OnlyPublishToCratesIo ==
    last.linter = "only-publish-to-crates-io" =>
        IF LastPackage.publish \in {Registries(<<>>), Registries(<<CRATES_IO>>)}
        THEN last.out = <<>>
        ELSE /\ Len(last.out) = 1
             /\ last.out[1].level = "error"
             /\ last.out[1].kind = last.target

\* C9 witness: the rule ran on a package restricted to one registry that is not
\* the default one, and wrote one error.
C9_Witness ==
    /\ last.linter = "only-publish-to-crates-io"
    /\ ~LastPackage.publish.unrestricted
    /\ Len(LastPackage.publish.registries) = 1
    /\ LastPackage.publish.registries[1] # CRATES_IO
    /\ Len(last.out) = 1

\* What the two path-convention rules wrote about the package the last
\* invocation ran against.
PathErrors ==
    SelectSeqF(messages,
               [m \in Range(messages) |->
                   /\ m.kind = last.target
                   /\ m.name \in {"crates-in-crates-directory",
                                  "crates-only-in-crates-directory"}])

\* Both path-convention rules have run against the last invocation's package.
PathRulesRan ==
    /\ last.linter = "crates-only-in-crates-directory"
    /\ pos >= 3
    /\ Invocations(ctx, config)[pos - 2].linter = "crates-in-crates-directory"
    /\ Invocations(ctx, config)[pos - 2].target = last.target

\* C10: the path-convention rules run together on one package: crates/<name>
\* with the package's name gives no error; a first segment other than crates
\* gives exactly one, CratesOnlyInCratesDirectory's; crates/<dir> with another
\* directory name gives exactly one, the directory-name error; crates/<name>/<sub>
\* gives exactly one, the no-nesting error.
C10_PathConventions ==
    PathRulesRan =>
        LET path == LastPackage.workspace_path
            name == LastPackage.name
        IN  /\ (path = <<"crates", name>> => PathErrors = <<>>)
            /\ (Len(path) >= 1 /\ path[1] # "crates" =>
                   /\ Len(PathErrors) = 1
                   /\ PathErrors[1].name = "crates-only-in-crates-directory"
                   /\ PathErrors[1].level = "error")
            /\ (Len(path) = 2 /\ path[1] = "crates" /\ path[2] # name =>
                   /\ Len(PathErrors) = 1
                   /\ PathErrors[1].name = "crates-in-crates-directory"
                   /\ PathErrors[1].body.text
                      = "must be in a directory with the same name as the crate")
            /\ (Len(path) = 3 /\ path[1] = "crates" /\ path[2] = name =>
                   /\ Len(PathErrors) = 1
                   /\ PathErrors[1].name = "crates-in-crates-directory"
                   /\ PathErrors[1].body.text
                      = "must be in a flat directory structure, no nesting")

\* C10 witness: both rules ran on a package at lib/<name> and one error, the
\* must-be-in-crates one, was written.
C10_Witness ==
    /\ PathRulesRan
    /\ LastPackage.workspace_path = <<"lib", LastPackage.name>>
    /\ Len(PathErrors) = 1

\* C10 witness, nesting: both rules ran on a package at crates/<name>/sub.
C10_WitnessNested ==
    /\ PathRulesRan
    /\ LastPackage.workspace_path = <<"crates", LastPackage.name, "sub">>
    /\ Len(PathErrors) = 1

\* C10 witness, directory name: both rules ran on a package at crates/other.
C10_WitnessMismatch ==
    /\ PathRulesRan
    /\ LastPackage.workspace_path = <<"crates", "other">>
    /\ Len(PathErrors) = 1

\* The context of the workspace whose workspace-hack package declares no
\* dependency: its graph has lost the links that leave the workspace-hack
\* package and the packages that only these links reached.
without_workspace_hack_dependencies(c) ==
    LET g == c.package_graph
    IN  [c EXCEPT !.package_graph =
            build_graph(g.packages,
                        {l \in Range(g.links) :
                            ~is_workspace_hack(c, metadata(g, l.from).name)})]

\* What the last invocation's linter writes on another context.
LastLinterOn(c) ==
    IF last.package = None
    THEN ProjectLinter_run(last.linter, c, config)
    ELSE PackageLinter_run(last.linter, c, config,
                           metadata(c.package_graph, last.package))

\* C15 as stated: for BannedDeps, DirectDepDups, DirectDuplicateGitDependencies,
\* UnpublishedPackagesOnlyUsePathDependencies and
\* PublishedPackagesDontDependOnUnpublishedPackages alike, removing the links
\* that leave the workspace-hack package never changes what the rule writes.
C15_Original ==
    last.linter # None
        => last.out \in LastLinterOn(without_workspace_hack_dependencies(ctx))

\* What an output says about the packages banned as direct dependencies, for an
\* output of BannedDeps, and the whole output for another rule.
DirectPart(out) ==
    IF last.linter = "banned-deps"
    THEN SelectSeq(out, LAMBDA m : m.body.subject \in BannedWith("Direct"))
    ELSE out

\* C15 amended: for BannedDeps under the Direct policy, DirectDepDups and
\* DirectDuplicateGitDependencies, removing the links that leave the
\* workspace-hack package never changes what the rule writes; BannedDeps under
\* the Always policy reports a package that only the workspace-hack package
\* uses, and the two package rules make no such exclusion.
C15_HackLinksNeverCount ==
    last.variant = "project"
        => DirectPart(last.out)
              \in {DirectPart(out) :
                      out \in LastLinterOn(without_workspace_hack_dependencies(ctx))}

\* C15 witness, Always: BannedDeps ran with an Always-banned package that only
\* the workspace-hack package uses, and wrote an error about it.
C15_WitnessAlways ==
    /\ last.linter = "banned-deps"
    /\ ctx.workspace_hack_name = "hack"
    /\ "x" \in BannedWith("Always")
    /\ {l.from : l \in Range(ctx.package_graph.links)} = {"hack"}
    /\ Len(last.out) = 1

\* C15 witness, Direct: BannedDeps ran with a Direct-banned package that the
\* workspace-hack package and one other member use, and wrote one error.
C15_WitnessDirect ==
    /\ last.linter = "banned-deps"
    /\ ctx.workspace_hack_name = "hack"
    /\ "x" \in BannedWith("Direct")
    /\ {l.from : l \in Range(reverse_direct_links(ctx.package_graph, "x1"))}
       = {"hack", "b"}
    /\ Len(last.out) = 1

\* C15 witness: DirectDepDups ran on a workspace where the workspace-hack package
\* uses one version of x and another member the other version, and wrote nothing.
C15_Witness ==
    /\ last.linter = "direct-dep-dups"
    /\ ctx.workspace_hack_name = "hack"
    /\ \E l \in Range(ctx.package_graph.links) : l.from = "hack" /\ l.to = "x1"
    /\ \E l \in Range(ctx.package_graph.links) : l.from \in {"a", "b"} /\ l.to = "x2"
    /\ ~\E l \in Range(ctx.package_graph.links) : l.from \in {"a", "b"} /\ l.to = "x1"
    /\ config.allow = <<>>
    /\ last.out = <<>>

\* C11: what a rule of nexlint-lints writes in an invocation is determined by
\* the workspace snapshot and the configuration, so that a second run over the
\* same snapshot gives the same messages in the same order.
C11_Determinism ==
    last.linter \in (Range(AllProjectLinters) \cup Range(AllPackageLinters))
        => LastLinterOn(ctx) = {last.out}

\* C16: the messages of one BannedDeps run are ordered by the banned package's
\* name and, among the messages about one banned package, by the dependent
\* package's name.
C16_BannedDepsOrder ==
    last.linter = "banned-deps" =>
        \A i, j \in 1..Len(last.out) :
            i < j =>
                LET m == last.out[i]
                    n == last.out[j]
                IN  /\ StrRank(m.body.subject) <= StrRank(n.body.subject)
                    /\ (/\ m.body.subject = n.body.subject
                        /\ m.kind.type = "package"
                        /\ n.kind.type = "package")
                           => StrRank(m.kind.name) <= StrRank(n.kind.name)

\* C19 as stated: every message carries the name of the rule that wrote it and
\* the kind of the target that rule was run against.
C19_Original ==
    \A i \in 1..Len(messages) :
        /\ messages[i].name = WrittenBy(i).linter
        /\ messages[i].kind = WrittenBy(i).target

\* Is kind the package kind of a workspace member with a direct link to a
\* package named subject?
DependentKind(kind, subject) ==
    \E l \in Range(ctx.package_graph.links) :
        LET from == metadata(ctx.package_graph, l.from)
            to == metadata(ctx.package_graph, l.to)
        IN  /\ from.in_workspace
            /\ to.name = subject
            /\ kind = KindPackage(from.name, from.workspace_path)

\* C19 amended: every message carries the name of the rule that wrote it; it
\* carries the kind of the target the rule was run against, except that
\* BannedDeps, run against the project, tags what it writes for a package banned
\* under the Direct policy with the package kind of the dependent member.
C19_MessageTags ==
    \A i \in 1..Len(messages) :
        /\ messages[i].name = WrittenBy(i).linter
        /\ IF /\ WrittenBy(i).linter = "banned-deps"
              /\ messages[i].body.subject \in DOMAIN config.banned
              /\ config.banned[messages[i].body.subject].type_ = "Direct"
           THEN /\ WrittenBy(i).target = KindProject
                /\ DependentKind(messages[i].kind, messages[i].body.subject)
           ELSE messages[i].kind = WrittenBy(i).target

\* C19 witness: a run holds a message BannedDeps wrote with a package kind while
\* run against the project, and a message a package rule wrote against a member.
C19_Witness ==
    /\ \E i \in 1..Len(messages) :
          /\ WrittenBy(i).linter = "banned-deps"
          /\ messages[i].kind.type = "package"
    /\ \E i \in 1..Len(messages) :
          /\ WrittenBy(i).variant = "package"
          /\ messages[i].kind = WrittenBy(i).target

\* C12: the command ends with failure exactly when the results run() returned
\* hold at least one error-level message; results with warnings only, or with
\* no message, end it with success.
C12_FailsIffErrorLevel ==
    (exit # None /\ result.type = "Ok")
        => (exit = "failure" <=> HasError(result.messages))

\* C14: a SystemError aborts the run: the step that raises it adds no message
\* and no invocation follows it, run() returns the error and no LintResults,
\* nothing is printed and the command ends, if it has, with failure.
C14_SystemErrorAborts ==
    [][ status' = "SystemError" =>
            /\ messages' = messages
            /\ skipped' = skipped
            /\ pos' = pos
            /\ result'.type = "Err"
            /\ result'.messages = <<>>
            /\ printed' = <<>>
            /\ exit' \in {None, "failure"} ]_vars

\* C14 witness: a run that had collected messages was aborted by a SystemError
\* and the command has ended.
C14_Witness ==
    /\ status = "SystemError"
    /\ messages # <<>>
    /\ exit = "failure"

\* The invocations of the file phases that were made, as positions in invs, the
\* invocations of the run.
FileInvocationsMade(invs) ==
    {k \in 1..(pos - 1) : invs[k].variant \in {"file_path", "content"}}

\* What pre_run reports for an invocation of the file phases.
PreRunOf(inv) ==
    IF inv.variant = "file_path"
    THEN FilePathLinter_pre_run(inv.linter, config, inv.file)
    ELSE ContentLinter_pre_run(inv.linter, config, inv.file)

\* The Skipped records stored for an invocation's linter and target.
SkipRecords(inv) ==
    {i \in 1..Len(skipped) :
        skipped[i].linter = inv.linter /\ skipped[i].target = inv.target}

\* C17: for a file path or content linter, run is invoked only if pre_run
\* reported Executed (LicenseHeader::run never meets a path whose extension its
\* pre_run skips); when pre_run reported Skipped, the results hold no message
\* of that linter for that path and exactly one Skipped record for the pair,
\* with the reason pre_run gave.
\* Violated where git ls-files lists a path more than once (a path with a merge
\* conflict has one entry per stage): the path is linted once per entry, and a
\* pre_run skip stores one record per entry for the one (linter, path) pair.
C17_PreRunGatesRun ==
    /\ status # "Panicked"
    /\ last.target.type \in {"file", "content"} =>
          (last.run_invoked <=> PreRunOf(last).type = "Executed")
    /\ LET invs == Invocations(ctx, config)
       IN  \A k \in FileInvocationsMade(invs) :
          LET inv == invs[k]
              pre == PreRunOf(inv)
          IN  pre.type = "Skipped" =>
                 /\ ~\E i \in 1..Len(messages) : origin[i] = k
                 /\ ~\E i \in 1..Len(messages) :
                        /\ messages[i].name = inv.linter
                        /\ messages[i].kind = inv.target
                 /\ Cardinality(SkipRecords(inv)) = 1
                 /\ \A i \in SkipRecords(inv) :
                        /\ skipped[i].reason = pre.reason
                        /\ skipped[i].arg = pre.arg

\* C18: for a file whose bytes are not UTF-8, the run of every content linter
\* (which the engine invokes when the linter's pre_run lets the file through)
\* ends as Skipped(NonUtf8Content) and writes nothing, so that no message of a
\* content linter is about such a file.
\* Violated by PlaygroundContent: its run does not look at the content and
\* ends as Executed for a file that is not UTF-8.  The runs of LicenseHeader,
\* EofNewline and TrailingWhitespace end as the claim says.
C18_NonUtf8ContentSkipped ==
    /\ (last.target.type = "content" /\ ~last.file.content.utf8) =>
          /\ \A l \in Range(config.content_linters) :
                ContentLinter_pre_run(l, config, last.file) = Executed =>
                    ContentLinter_run(l, config, last.file)
                        = {Ran(Skipped("NonUtf8Content", <<>>), <<>>)}
          /\ last.run_invoked => last.run_status = Skipped("NonUtf8Content", <<>>)
          /\ last.out = <<>>
    /\ \A i \in 1..Len(messages) :
          WrittenBy(i).variant = "content" => WrittenBy(i).file.content.utf8

\* The external command behind each cache.
CommandOf(cache) ==
    IF cache = "tracked_files" THEN "git_ls_files" ELSE "cargo_metadata"

\* C13: once tracked_files() or package_graph() has succeeded its cell is full,
\* and from then on the cell never changes, the external command is not run
\* again, and every call of the accessor returns the value of the cell,
\* whatever the command would give by then.
C13_WriteOnceCaches ==
    [][ \A cache \in {"tracked_files", "package_graph"} :
            /\ (returned'.seq # returned.seq /\ returned'.call = cache /\ returned'.ok)
                  => nexlint_context'[cache] = <<returned'.value>>
            /\ nexlint_context[cache] # <<>> =>
                  /\ nexlint_context'[cache] = nexlint_context[cache]
                  /\ commands'[CommandOf(cache)] = commands[CommandOf(cache)]
                  /\ (returned'.seq # returned.seq /\ returned'.call = cache) =>
                        /\ returned'.ok
                        /\ returned'.value = nexlint_context[cache][1] ]_vars

\* C13 witness: tracked_files() returned the cached list at a moment when
\* git ls-files would have given another one, and the command ran once in all.
C13_Witness ==
    /\ returned.call = "tracked_files"
    /\ returned.ok
    /\ returned.value = "files-1"
    /\ returned.would = "files-2"
    /\ nexlint_context.tracked_files = <<"files-1">>
    /\ commands.git_ls_files = 1

\* Is the directory with components dir the directory with components root, or
\* below it?
RECURSIVE IsRootOrDescendant(_, _)
IsRootOrDescendant(dir, root) ==
    \/ dir = root
    \/ dir # <<>> /\ IsRootOrDescendant(SubSeq(dir, 1, Len(dir) - 1), root)

\* C20: new() fails when the repository root is not to be had, and with
\* CwdNotInProjectRoot when the current directory is neither the root nor below
\* it; in the context it builds, the root joined with current_rel_dir is
\* current_dir, and current_dir_is_root() holds exactly if current_dir is the
\* root.
C20_ContextConstruction ==
    LET top == repository_root(os.git_rev_parse)
    IN  /\ (returned.seq >= 1 /\ ~top.ok) => ~nexlint_context.built
        /\ (/\ returned.seq >= 1
            /\ top.ok
            /\ ~IsRootOrDescendant(components(os.current_dir), components(top.root)))
               => /\ ~nexlint_context.built
                  /\ returned.call = "new" => returned.error = "CwdNotInProjectRoot"
        /\ nexlint_context.built =>
               /\ nexlint_context.current_dir = os.current_dir
               /\ nexlint_context.root = top.root
               /\ path_eq(join(nexlint_context.root, nexlint_context.current_rel_dir),
                          nexlint_context.current_dir)
               /\ current_dir_is_root(nexlint_context)
                      <=> path_eq(nexlint_context.current_dir, nexlint_context.root)

\* C20 witness: new() failed in a directory next to the root whose name starts
\* with the name of the root.
C20_Witness ==
    /\ returned.call = "new"
    /\ returned.error = "CwdNotInProjectRoot"
    /\ os.current_dir = <<"/", "w", "/", "r", "s">>

\* C20 witness: new() built a context in a directory below the root.
C20_WitnessBelowRoot ==
    /\ nexlint_context.built
    /\ nexlint_context.current_rel_dir = <<"s", "/", "s">>
    /\ ~current_dir_is_root(nexlint_context)

\* A direct dependency: a link from a workspace member other than the
\* workspace-hack package to a package outside the workspace.
OneHop(c, l) ==
    LET from == metadata(c.package_graph, l.from)
        to == metadata(c.package_graph, l.to)
    IN  /\ from.in_workspace
        /\ ~(c.workspace_hack_name # None /\ from.name = c.workspace_hack_name)
        /\ ~to.in_workspace

\* The context whose graph keeps only the direct dependencies.
only_one_hop_links(c) ==
    [c EXCEPT !.package_graph =
        build_graph(c.package_graph.packages,
                    {l \in Range(c.package_graph.links) : OneHop(c, l)})]

\* The links DirectDuplicateGitDependencies::run adds to direct_deps.
GitRecorded(c) ==
    LET asked == query_workspace_links(c.package_graph)
    IN  SelectSeqF(asked,
            [l \in Range(asked) |-> DirectDuplicateGitDependencies_records(c, l)])

\* C21: DirectDepDups and DirectDuplicateGitDependencies record a (dependent,
\* dependency) pair only for a link from a workspace member other than the
\* workspace-hack package to a package outside the workspace; every version or
\* hash an error lists is the target of such a link from the dependent listed
\* with it, and the links between two third-party packages or between two
\* workspace members can be removed without changing what the rules write.
C21_OneHopOnly ==
    LET g == ctx.package_graph
    IN  /\ last.linter = "direct-dep-dups" =>
            /\ \A l \in Range(DirectDepDups_direct_deps(ctx)) : OneHop(ctx, l)
            /\ \A m \in Range(last.out) : \A e \in Range(m.body.versions) :
                  \A d \in Range(e.packages) :
                     \E l \in Range(g.links) :
                        /\ OneHop(ctx, l)
                        /\ metadata(g, l.from).name = d
                        /\ metadata(g, l.to).name = m.body.subject
                        /\ metadata(g, l.to).version = e.version
            /\ last.out \in LastLinterOn(only_one_hop_links(ctx))
        /\ last.linter = "direct-duplicate-git-dependencies" =>
            /\ \A l \in Range(GitRecorded(ctx)) : OneHop(ctx, l)
            /\ \A m \in Range(last.out) : \A e \in Range(m.body.hashes) :
                  \A d \in Range(e.packages) :
                     \E l \in Range(g.links) :
                        /\ OneHop(ctx, l)
                        /\ metadata(g, l.from).name = d[1]
                        /\ metadata(g, l.to).name = d[2]
                        /\ metadata(g, l.to).source.repository = m.body.subject
                        /\ metadata(g, l.to).source.resolved = e.resolved
            /\ last.out \in LastLinterOn(only_one_hop_links(ctx))

\* C21 witness: DirectDepDups ran on a workspace where member a uses x 2 and y
\* directly and y uses x 1, so the second version of x is reached only through
\* y, and wrote nothing.
C21_Witness ==
    /\ last.linter = "direct-dep-dups"
    /\ config.allow = <<>>
    /\ {<<l.from, l.to>> : l \in Range(ctx.package_graph.links)}
       = {<<"a", "x2">>, <<"a", "y">>, <<"y", "x1">>}
    /\ last.out = <<>>

\* C21 witness, between members: DirectDuplicateGitDependencies ran on a
\* workspace with a link between two members and one between two third-party
\* packages, and its only error lists the two direct uses of the repository.
C21_WitnessGit ==
    /\ last.linter = "direct-duplicate-git-dependencies"
    /\ \E l \in Range(ctx.package_graph.links) : l.from = "a" /\ l.to = "b"
    /\ Len(last.out) = 1
    /\ Len(last.out[1].body.hashes) = 2

\* The place of a variant among the phases of a run.
PhaseOf(variant) ==
    CASE variant = "project" -> 1
      [] variant = "package" -> 2
      [] variant = "file_path" -> 3
      [] variant = "content" -> 4

\* The rules configured for a phase, in configured order.
RulesOf(phase) ==
    CASE phase = 1 -> config.project_linters
      [] phase = 2 -> config.package_linters
      [] phase = 3 -> config.file_path_linters
      [] phase = 4 -> config.content_linters

\* The targets of a phase, in target order.
TargetsOf(phase) ==
    CASE phase = 1 -> <<KindProject>>
      [] phase = 2 ->
            LET members == PackageTargets(ctx.package_graph)
            IN  [i \in 1..Len(members) |-> PackageContext_kind(members[i])]
      [] phase = 3 ->
            [i \in 1..Len(ctx.tracked_files) |-> KindFile(ctx.tracked_files[i].path)]
      [] phase = 4 ->
            [i \in 1..Len(ctx.tracked_files) |-> KindContent(ctx.tracked_files[i].path)]

\* The targets and the rules of the four phases.
PhaseTargets == [ph \in 1..4 |-> TargetsOf(ph)]
PhaseRules == [ph \in 1..4 |-> RulesOf(ph)]

\* The configured (rule, target) pairs of a run, each as (phase, place of the
\* target, place of the rule), given the targets and the rules of the phases.
\* A target is an entry of the list its phase enumerates.
PairsOf(targets, rules) ==
    UNION {{<<ph, t, i>> : t \in 1..Len(targets[ph]), i \in 1..Len(rules[ph])} :
              ph \in 1..4}

\* Phase first, then target, then rule.
PairLess(p, q) ==
    \/ p[1] < q[1]
    \/ p[1] = q[1] /\ p[2] < q[2]
    \/ p[1] = q[1] /\ p[2] = q[2] /\ p[3] < q[3]

\* The k-th of the pairs in that order.
PairAt(pairs, k) ==
    CHOOSE p \in pairs : Cardinality({q \in pairs : PairLess(q, p)}) = k - 1

\* The rule and the target of a pair.
PairValue(targets, rules, p) == <<rules[p[1]][p[3]], targets[p[1]][p[2]]>>

\* One step of a run whose ways to end are ends.  The run makes one invocation
\* per step, in the order of the pairs, and each invocation has one outcome; so
\* at Completed a (rule, target) pair has as many outcomes as the phases
\* enumerate it.
RunStep(ends) ==
    /\ \/ status' = status
       \/ status = "Idle" /\ status' = "Running"
       \/ status = "Running" /\ status' \in ends
    /\ status \notin {"Idle", "Running"} =>
          /\ status' = status
          /\ pos' = pos /\ last' = last /\ result' = result
          /\ messages' = messages /\ skipped' = skipped
    /\ status' = "FailedFast" => config.fail_fast
    /\ last' # last => pos' # pos
    /\ pos' = pos => skipped' = skipped
    /\ pos' # pos =>
          \A targets \in {PhaseTargets}, rules \in {PhaseRules} :
          \A pairs \in {PairsOf(targets, rules)} :
              /\ status = "Running"
              /\ pos' = pos + 1
              /\ pos <= Cardinality(pairs)
              /\ last'.variant \in {"project", "package", "file_path", "content"}
              /\ \A now \in {PairAt(pairs, pos)} :
                    /\ PhaseOf(last'.variant) = now[1]
                    /\ last'.target = targets[now[1]][now[2]]
                    /\ last'.linter = rules[now[1]][now[3]]
              /\ last'.run_status.type \in {"Executed", "Skipped"}
              /\ skipped' =
                    IF last'.run_status.type = "Skipped"
                    THEN Append(skipped,
                                [linter |-> last'.linter, target |-> last'.target,
                                 reason |-> last'.run_status.reason,
                                 arg |-> last'.run_status.arg])
                    ELSE skipped
    /\ status' = "Completed" /\ status # "Completed" =>
          \A targets \in {PhaseTargets}, rules \in {PhaseRules} :
          \A pairs \in {PairsOf(targets, rules)} :
              /\ pos = Cardinality(pairs) + 1
              /\ \A p, q \in pairs :
                    PairValue(targets, rules, p) = PairValue(targets, rules, q)
                        => p = q

\* C22: the invocations of a run are made one at a time, phase by phase
\* (project, package, file path, content), target by target and rule by rule
\* in configured order; the run goes from Idle to Running and ends as
\* Completed or FailedFast and in no other way, nothing follows the end,
\* FailedFast needs fail_fast, and at Completed every configured (rule, target)
\* pair has had exactly one outcome, Executed or Skipped.
\* Violated where git ls-files lists a path more than once: the file phases
\* enumerate the path once per entry and the pair of a rule and that path has
\* one outcome per entry.  A run also has a third way to end: a SystemError
\* aborts it out of Running, with some pairs left without outcome.
C22_RunOrderAndCompleteness == [][RunStep({"Completed", "FailedFast"})]_vars

\* What the external command behind a cache gives as a Result, for an outcome.
InitOf(cache, outcome) ==
    IF cache = "tracked_files" THEN tracked_files_init(outcome)
    ELSE package_graph_init(outcome)

\* C23: a call of tracked_files() or package_graph() on an empty cell runs the
\* external command once; if the command fails the call returns its error and
\* the cell stays empty, so the next call runs the command again, and if it
\* succeeds the cell is filled with what it gave and the call returns that; a
\* call on a full cell never returns an error.
C23_FailedInitNotStored ==
    [][ \A cache \in {"tracked_files", "package_graph"} :
            (returned'.seq # returned.seq /\ returned'.call = cache) =>
                LET init == InitOf(cache, returned'.would)
                    cmd == CommandOf(cache)
                IN  IF nexlint_context[cache] = <<>>
                    THEN /\ commands'[cmd] = commands[cmd] + 1
                         /\ returned'.ok = init.ok
                         /\ IF init.ok
                            THEN /\ nexlint_context'[cache] = <<init.value>>
                                 /\ returned'.value = init.value
                            ELSE /\ nexlint_context'[cache] = <<>>
                                 /\ returned'.error = init.error
                                 /\ returned'.error # None
                    ELSE /\ returned'.ok
                         /\ returned'.error = None ]_vars

\* C23 witness: git ls-files was run twice and the second run filled the cell,
\* so the first call had failed and left it empty; the last call returned the
\* list.
C23_Witness ==
    /\ commands.git_ls_files = 2
    /\ nexlint_context # NoContext
    /\ nexlint_context.tracked_files # <<>>
    /\ returned.call = "tracked_files"
    /\ returned.ok
    /\ returned.value = nexlint_context.tracked_files[1]

\* C23 witness, package graph: cargo metadata has failed twice and the cell is
\* still empty.
C23_WitnessStillEmpty ==
    /\ commands.cargo_metadata = 2
    /\ nexlint_context # NoContext
    /\ nexlint_context.package_graph = <<>>
    /\ returned.call = "package_graph"
    /\ ~returned.ok
    /\ returned.error = "Guppy"

\* C24: with threads calling the accessor of one shared cell, at any moment at
\* most one initialiser is running (in its closure, with or without its command
\* started, or ending), at most one initialisation has succeeded, a thread that
\* has returned a value returned the value of the complete cell (so all
\* returned values are the same), and the slot is only read from a complete
\* cell.
C24_SingleInitialisation ==
    /\ Cardinality({t \in Threads :
                       callers[t].pc \in {"closure", "command", "guard"}}) <= 1
    /\ initialised <= 1
    /\ initialised = 1 <=> once.state = "Complete"
    /\ once.state = "Complete" => once.slot # <<>>
    /\ \A t \in Threads :
          (callers[t].pc = "returned" /\ callers[t].ok) =>
              /\ once.state = "Complete"
              /\ callers[t].value = once.slot[1]
    /\ \A t, u \in Threads :
          (/\ callers[t].pc = "returned" /\ callers[t].ok
           /\ callers[u].pc = "returned" /\ callers[u].ok)
              => callers[t].value = callers[u].value

\* C24 witness: two threads have returned the same value, one of them after
\* waiting for the other's initialiser, and the command was run once.
C24_Witness ==
    /\ \A t \in {1, 2} : callers[t].pc = "returned" /\ callers[t].ok
    /\ callers[2].waited
    /\ ~callers[1].waited
    /\ initialised = 1
    /\ commands[CommandOf(once.cache)] = 1

\* C24 witness, a failed initialiser: a thread's closure failed while another
\* thread was waiting, and the waiting thread then initialised the cell.
C24_WitnessRetry ==
    /\ callers[1].pc = "returned" /\ ~callers[1].ok /\ callers[1].error # None
    /\ callers[2].pc = "returned" /\ callers[2].ok /\ callers[2].waited
    /\ initialised = 1
    /\ commands[CommandOf(once.cache)] = 2

\* C25: merge_base returns a git hash or a SystemError whatever git merge-base
\* gave, and never panics; when the command succeeded with empty output it
\* returns an error.
C25_MergeBaseNeverAborts ==
    returned.call = "merge_base" =>
        /\ returned.error # Panic.error
        /\ \/ returned.ok /\ Len(returned.value) = GitHashLen
           \/ ~returned.ok /\ returned.error \in {"Io", "Exec", "FromHex"}
        /\ (returned.would.success /\ returned.would.stdout = <<>>) =>
              ~returned.ok /\ returned.error \in {"Io", "Exec", "FromHex"}

\* The messages of out whose text is text.
WithText(out, text) == SelectSeqF(out, [m \in Range(out) |-> m.body.text = text])

\* C26: CratesInCratesDirectory writes nothing for a package whose first path
\* segment is not crates; for a package under crates/ it writes one error if
\* the second segment is missing or is not the package's name, and,
\* independently, one error if there is a third segment: zero, one or two
\* errors in all.
C26_CratesInCratesDirectory ==
    last.linter = "crates-in-crates-directory" =>
        LET path == LastPackage.workspace_path
            name == LastPackage.name
            under == Len(path) >= 1 /\ path[1] = "crates"
            misnamed == under /\ (Len(path) < 2 \/ path[2] # name)
            nested == under /\ Len(path) >= 3
            naming == WithText(last.out,
                          "must be in a directory with the same name as the crate")
            nesting == WithText(last.out,
                          "must be in a flat directory structure, no nesting")
        IN  /\ ~under => last.out = <<>>
            /\ Len(last.out) <= 2
            /\ Len(last.out) = Len(naming) + Len(nesting)
            /\ Len(naming) = (IF misnamed THEN 1 ELSE 0)
            /\ Len(nesting) = (IF nested THEN 1 ELSE 0)
            /\ \A m \in Range(last.out) :
                  /\ m.level = "error"
                  /\ m.name = "crates-in-crates-directory"
                  /\ m.kind = PackageContext_kind(LastPackage)

\* C26 witness: the rule ran on a package at crates/<other>/<sub> and wrote
\* both errors.
C26_Witness ==
    /\ last.linter = "crates-in-crates-directory"
    /\ Len(LastPackage.workspace_path) = 3
    /\ LastPackage.workspace_path[1] = "crates"
    /\ LastPackage.workspace_path[2] # LastPackage.name
    /\ Len(last.out) = 2

\* C26 witness, outside crates/: the rule ran on a package at lib/<name> and
\* wrote nothing.
C26_WitnessOutside ==
    /\ last.linter = "crates-in-crates-directory"
    /\ LastPackage.workspace_path = <<"lib", LastPackage.name>>
    /\ last.out = <<>>

\* C26 witness, the bare directory: the rule ran on a package at crates and
\* wrote the one error about the directory name.
C26_WitnessBare ==
    /\ last.linter = "crates-in-crates-directory"
    /\ LastPackage.workspace_path = <<"crates">>
    /\ Len(last.out) = 1

================================================================================
